---- MODULE Spec2Model ----
(***************************************************************************)
(* A model of iidy's list store (package data): the table iidy.lists, the  *)
(* eight store operations of data/data.go as single SQL statements, and    *)
(* the keyset-pagination protocol a client drives with GetBatch.           *)
(***************************************************************************)
EXTENDS Integers, Sequences, FiniteSets, TLC

\* ------------------------------------------------------------------ bounds

\* The attempts counter is capped in the guards of the increment actions.
MaxAttempts == 1

\* Longest items slice handed to a batch operation.
MaxBatchLen == 2

\* Largest count handed to GetBatch by a single call.
MaxCount == 2

\* Longest request body handed to the codec on its own.
MaxBodyLen == 5

\* The count a worker hands to GetBatch.
BatchSize == 2

\* A worker abandons an item whose attempts reached this limit.
AbandonLimit == 2

\* ------------------------------------------------------------ value domains

\* List names.
Lists == {"l1", "l2"}

\* Item names: strings as sequences of byte codes; <<>> is the empty string.
Items == {<<>>, <<1>>, <<1, 2>>, <<2>>}

\* The item names callers use with each list: the second list is a bystander
\* that shares two names with the first.
ItemsOf(list) == IF list = "l1" THEN Items ELSE {<<1>>, <<2>>}

\* Go error values: nil, a pgx error returned as is, a repackaged error.
ErrNil == "nil"
ErrPgx == "pgx"
ErrOpaque == "opaque"

\* A Go []string: the nil slice and the slice holding elems.
NilSlice == [isNil |-> TRUE, elems |-> <<>>]
MkSlice(s) == [isNil |-> FALSE, elems |-> s]

\* All sequences over S of length at most n.
SeqsUpTo(S, n) == UNION {[1..k -> S] : k \in 0..n}

\* The items slices a caller may hand to a batch operation on list.
Slices(list) == {NilSlice} \cup {MkSlice(s) : s \in SeqsUpTo(ItemsOf(list), MaxBatchLen)}

\* The identifiers of a slice, as a set (select unnest(@items::text[])).
Unnest(items) == {items.elems[i] : i \in 1..Len(items.elems)}

\* ------------------------------------------------------------ the table

\* text comparison s < t of item and @startID: bytewise, a proper prefix first.
RECURSIVE StrLess(_, _)
StrLess(s, t) ==
    IF t = <<>> THEN FALSE
    ELSE IF s = <<>> THEN TRUE
    ELSE IF Head(s) # Head(t) THEN Head(s) < Head(t)
    ELSE StrLess(Tail(s), Tail(t))

\* A row of iidy.lists.
Row(list, item, attempts) == [list |-> list, item |-> item, attempts |-> attempts]

\* A single-row statement that lost its list condition.
MatchAnyList(t, list, item) == {r \in t : r.item = item}

\* The rows matching where list = @list and item = @item.
Match(t, list, item) == {r \in t : r.list = list /\ r.item = item}

\* A batch statement that lost its list condition.
MatchBatchAnyList(t, list, items) == {r \in t : r.item \in Unnest(items)}

\* The rows matching where list = @list and item in (select unnest(@items)).
MatchBatch(t, list, items) == {r \in t : r.list = list /\ r.item \in Unnest(items)}

\* A table without the primary key: no insert violates it.
NoPrimaryKey(t, list, item) == FALSE

\* constraint list_pk primary key (list, item): would inserting (list, item)
\* into t violate it?
ViolatesPK(t, list, item) == Match(t, list, item) # {}

\* The result of a statement that changed nothing.
ExecResult(t, affected, err, stmts) ==
    [table |-> t, affected |-> affected, err |-> err, stmts |-> stmts]

\* ------------------------------------------- the store operations (data.go)
\* Every operation takes the table t and fail, whether the backing store
\* fails the statement (connectivity, timeout), and gives the table after it
\* with what the Go function returns; stmts counts the statements issued.

\* An insert written as an upsert that starts the row again.
InsertOneUpsert(t, list, item, fail) ==
    IF fail
    THEN [table |-> t, affected |-> 0, err |-> ErrPgx, stmts |-> 1]
    ELSE [table |-> (t \ {r \in t : r.list = list /\ r.item = item})
                        \cup {[list |-> list, item |-> item, attempts |-> 0]},
          affected |-> 1, err |-> ErrNil, stmts |-> 1]

\* insert into iidy.lists (list, item) values (@list, @item)
InsertOne(t, list, item, fail) ==
    IF fail \/ ViolatesPK(t, list, item)
    THEN ExecResult(t, 0, ErrPgx, 1)
    ELSE ExecResult(t \cup {Row(list, item, 0)}, 1, ErrNil, 1)

\* A GetOne that takes attempts = 0 for "no row".
GetOneFoundByAttempts(t, list, item, fail) ==
    IF fail
    THEN [table |-> t, attempts |-> 0, found |-> FALSE, err |-> ErrPgx, stmts |-> 1]
    ELSE IF Match(t, list, item) = {}
    THEN [table |-> t, attempts |-> 0, found |-> FALSE, err |-> ErrNil, stmts |-> 1]
    ELSE [table |-> t, attempts |-> (CHOOSE r \in Match(t, list, item) : TRUE).attempts,
          found |-> (CHOOSE r \in Match(t, list, item) : TRUE).attempts # 0,
          err |-> ErrNil, stmts |-> 1]

\* select attempts ... where list = @list and item = @item
GetOne(t, list, item, fail) ==
    IF fail
    THEN [table |-> t, attempts |-> 0, found |-> FALSE, err |-> ErrPgx, stmts |-> 1]
    ELSE IF Match(t, list, item) = {}
    THEN [table |-> t, attempts |-> 0, found |-> FALSE, err |-> ErrNil, stmts |-> 1]
    ELSE [table |-> t, attempts |-> (CHOOSE r \in Match(t, list, item) : TRUE).attempts,
          found |-> TRUE, err |-> ErrNil, stmts |-> 1]

\* delete from iidy.lists where list = @list and item = @item
DeleteOne(t, list, item, fail) ==
    IF fail
    THEN ExecResult(t, 0, ErrPgx, 1)
    ELSE ExecResult(t \ Match(t, list, item), Cardinality(Match(t, list, item)), ErrNil, 1)

\* An increment that counts the attempt twice.
IncrementedTwice(t, hit) ==
    (t \ hit) \cup {[list |-> r.list, item |-> r.item, attempts |-> r.attempts + 2] : r \in hit}

\* The table with attempts = attempts + 1 set on the rows hit.
Incremented(t, hit) ==
    (t \ hit) \cup {Row(r.list, r.item, r.attempts + 1) : r \in hit}

\* An increment that creates the row it does not find.
IncrementOneCreating(t, list, item, fail) ==
    IF fail
    THEN ExecResult(t, 0, ErrOpaque, 1)
    ELSE IF Match(t, list, item) = {}
    THEN ExecResult(t \cup {Row(list, item, 1)}, 1, ErrNil, 1)
    ELSE ExecResult(Incremented(t, Match(t, list, item)),
                    Cardinality(Match(t, list, item)), ErrNil, 1)

\* update iidy.lists set attempts = attempts + 1 where list = @list and item = @item
IncrementOne(t, list, item, fail) ==
    IF fail
    THEN ExecResult(t, 0, ErrOpaque, 1)
    ELSE ExecResult(Incremented(t, Match(t, list, item)),
                    Cardinality(Match(t, list, item)), ErrNil, 1)

\* An itemCopier whose Next() steps over items[0] before the first Values().
CopyRowsFromSecond(list, items) ==
    {[list |-> list, item |-> items.elems[k], attempts |-> 0] : k \in 2..Len(items.elems)}

\* The rows the itemCopier yields for the bulk copy: (list, items[i]), attempts 0.
CopyRows(list, items) == {Row(list, i, 0) : i \in Unnest(items)}

\* Does the bulk copy hit list_pk: an identifier that has a row, or one twice?
CopyConflicts(t, list, items) ==
    \/ \E i \in Unnest(items) : ViolatesPK(t, list, i)
    \/ Cardinality(Unnest(items)) # Len(items.elems)

\* A bulk insert without the guard on an empty items slice.
InsertBatchUnguarded(t, list, items, fail) ==
    IF fail \/ CopyConflicts(t, list, items)
    THEN ExecResult(t, 0, ErrPgx, 1)
    ELSE ExecResult(t \cup CopyRows(list, items), Len(items.elems), ErrNil, 1)

\* A bulk insert that keeps the rows copied before the copy failed.
InsertBatchRowByRow(t, list, items, fail) ==
    IF items.isNil \/ Len(items.elems) = 0
    THEN [table |-> t, affected |-> 0, err |-> ErrNil, stmts |-> 0]
    ELSE IF fail \/ CopyConflicts(t, list, items)
    THEN [table |-> t \cup {r \in CopyRows(list, items) : ~ViolatesPK(t, list, r.item)},
          affected |-> 0, err |-> ErrPgx, stmts |-> 1]
    ELSE [table |-> t \cup CopyRows(list, items), affected |-> Len(items.elems),
          err |-> ErrNil, stmts |-> 1]

\* cf.CopyFrom(ctx, iidy.lists, (list, item), newItemCopier(list, items))
InsertBatch(t, list, items, fail) ==
    IF items.isNil \/ Len(items.elems) = 0
    THEN ExecResult(t, 0, ErrNil, 0)
    ELSE IF fail \/ CopyConflicts(t, list, items)
    THEN ExecResult(t, 0, ErrPgx, 1)
    ELSE ExecResult(t \cup CopyRows(list, items), Len(items.elems), ErrNil, 1)

\* A ListEntry of a row.
Entry(r) == [item |-> r.item, attempts |-> r.attempts]

\* order by list, item limit n: the first n of rows in ascending item order.
RECURSIVE OrderLimit(_, _)
OrderLimit(rows, n) ==
    IF n = 0 \/ rows = {}
    THEN <<>>
    ELSE LET first == CHOOSE r \in rows : \A o \in rows : ~StrLess(o.item, r.item)
         IN  <<Entry(first)>> \o OrderLimit(rows \ {first}, n - 1)

\* A page query written with item >= @startID.
CandidatesFromCursor(t, list, startID) ==
    IF startID = <<>>
    THEN {r \in t : r.list = list}
    ELSE {r \in t : r.list = list /\ ~StrLess(r.item, startID)}

\* The rows a page may hold: where list = @list [and item > @startID].
Candidates(t, list, startID) ==
    IF startID = <<>>
    THEN {r \in t : r.list = list}
    ELSE {r \in t : r.list = list /\ StrLess(startID, r.item)}

\* A row loop that tests rows.Err() and then returns the error of the last
\* Scan, which is nil: a failed read gives what was read so far and no error.
CollectRowsLosingErr(entries, readFail) ==
    IF readFail
    THEN [entries |-> <<>>, err |-> ErrNil]
    ELSE [entries |-> entries, err |-> ErrNil]

\* pgx.CollectRows(rowFetcher, ...): the rows of the result, or, when reading
\* them fails (readFail), no rows and the error of the read.
CollectRows(entries, readFail) ==
    IF readFail
    THEN [entries |-> <<>>, err |-> ErrPgx]
    ELSE [entries |-> entries, err |-> ErrNil]

\* select item, attempts ... order by list, item limit @count
\* fail: the query is refused; readFail: the store fails while the rows of
\* the accepted query are read.
GetBatch(t, list, startID, count, fail, readFail) ==
    IF count = 0
    THEN [table |-> t, entries |-> <<>>, err |-> ErrNil, stmts |-> 0]
    ELSE IF fail \/ count < 0
    THEN [table |-> t, entries |-> <<>>, err |-> ErrPgx, stmts |-> 1]
    ELSE LET got == CollectRows(OrderLimit(Candidates(t, list, startID), count), readFail)
         IN  [table |-> t, entries |-> got.entries, err |-> got.err, stmts |-> 1]

\* A batch delete that issues one delete statement for each item.
DeleteBatchPerItem(t, list, items, fail) ==
    IF items.isNil \/ Len(items.elems) = 0
    THEN [table |-> t, affected |-> 0, err |-> ErrNil, stmts |-> 0]
    ELSE IF fail
    THEN [table |-> t, affected |-> 0, err |-> ErrPgx, stmts |-> 1]
    ELSE [table |-> t \ MatchBatch(t, list, items),
          affected |-> Cardinality(MatchBatch(t, list, items)),
          err |-> ErrNil, stmts |-> Len(items.elems)]

\* delete from iidy.lists where list = @list and item in (select unnest(@items))
DeleteBatch(t, list, items, fail) ==
    IF items.isNil \/ Len(items.elems) = 0
    THEN ExecResult(t, 0, ErrNil, 0)
    ELSE IF fail
    THEN ExecResult(t, 0, ErrPgx, 1)
    ELSE ExecResult(t \ MatchBatch(t, list, items),
                    Cardinality(MatchBatch(t, list, items)), ErrNil, 1)

\* A batch increment that counts a row once for each time it is named.
IncrementBatchPerOccurrence(t, list, items, fail) ==
    IF items.isNil \/ Len(items.elems) = 0
    THEN [table |-> t, affected |-> 0, err |-> ErrNil, stmts |-> 0]
    ELSE IF fail
    THEN [table |-> t, affected |-> 0, err |-> ErrPgx, stmts |-> 1]
    ELSE [table |-> Incremented(t, MatchBatch(t, list, items)),
          affected |-> Cardinality({k \in 1..Len(items.elems) :
                                       Match(t, list, items.elems[k]) # {}}),
          err |-> ErrNil, stmts |-> 1]

\* update iidy.lists set attempts = attempts + 1 where list = @list
\* and item in (select unnest(@items))
IncrementBatch(t, list, items, fail) ==
    IF items.isNil \/ Len(items.elems) = 0
    THEN ExecResult(t, 0, ErrNil, 0)
    ELSE IF fail
    THEN ExecResult(t, 0, ErrPgx, 1)
    ELSE ExecResult(Incremented(t, MatchBatch(t, list, items)),
                    Cardinality(MatchBatch(t, list, items)), ErrNil, 1)

\* ---------------------------------------- the HTTP adapter: response writer

\* Texts are sequences of byte codes; these are "\n" (the separator of
\* strings.Split) and the space.
NL == 10
SP == 32

\* White space for strings.TrimSpace and for encoding/json alike.
IsSpace(c) == c \in {NL, SP}

\* strings.TrimSpace
RECURSIVE TrimSpace(_)
TrimSpace(s) ==
    IF s # <<>> /\ IsSpace(Head(s)) THEN TrimSpace(Tail(s))
    ELSE IF s # <<>> /\ IsSpace(s[Len(s)]) THEN TrimSpace(SubSeq(s, 1, Len(s) - 1))
    ELSE s

\* A header value as the server writes it on the wire: newlines replaced by
\* spaces, then white space trimmed at both ends.
FieldValue(v) == TrimSpace([k \in 1..Len(v) |-> IF v[k] = NL THEN SP ELSE v[k]])

\* The header values the handlers set.
TextPlain == "text/plain; charset=utf-8"
AppJSON == "application/json; charset=utf-8"

\* An ErrorMessage: the handler's text and the error it formats with %v.
ErrorMessage(text, cause) == [text |-> text, cause |-> cause]

\* A response body: the encoding written (enc), the Go value written (msg:
\* its type), its number n, the item and attempts of a ListEntry with the
\* fields of it the encoding shows, the entries of a page, the error.
NoBody ==
    [enc |-> "none", msg |-> "none", n |-> 0, item |-> <<>>, attempts |-> 0,
     shows |-> {}, entries |-> <<>>, error |-> ErrorMessage("", ErrNil)]

\* An http.ResponseWriter: the header map the handler sets (Content-Type, ""
\* when not set; X-IIDY-Last-Item, no element when not set;
\* X-Content-Type-Options), and what went to the client: the status line
\* (wrote, status), the header as it was when the status line was written
\* (sent), the body; aborted when the handler panicked and the server closed
\* the connection.
NewWriter ==
    [header |-> [contentType |-> "", lastItem |-> <<>>, nosniff |-> FALSE],
     wrote |-> FALSE, status |-> 0,
     sent |-> [contentType |-> "", lastItem |-> <<>>, nosniff |-> FALSE],
     body |-> NoBody, aborted |-> FALSE]

\* w.WriteHeader(code): the header map as it is now goes out with the status,
\* its values as the wire takes them; a second call changes nothing.
WriteHeader(w, code) ==
    IF w.wrote THEN w
    ELSE [w EXCEPT !.wrote = TRUE, !.status = code,
                   !.sent = [w.header EXCEPT
                                !.lastItem = IF @ = <<>> THEN <<>> ELSE <<FieldValue(@[1])>>]]

\* w.Write(body): writes the status 200 first when none was written, and a
\* body sent without a Content-Type gets the one http.DetectContentType
\* finds, which is text/plain for the texts and for the JSON written here.
Write(w, body) ==
    LET v == WriteHeader(w, 200)
    IN  [v EXCEPT !.body = body,
                  !.sent.contentType = IF @ = "" THEN TextPlain ELSE @]

\* http.Error(w, error, code)
httpError(w, e, code) ==
    Write(WriteHeader([w EXCEPT !.header.contentType = TextPlain,
                                !.header.nosniff = TRUE], code),
          [NoBody EXCEPT !.enc = "text", !.msg = "ErrorMessage", !.error = e])

\* printError(w, contentType, e, code)
printError(w, contentType, e, code) ==
    IF contentType = "application/json"
    THEN Write(WriteHeader([w EXCEPT !.header.contentType = AppJSON], code),
               [NoBody EXCEPT !.enc = "json", !.msg = "ErrorMessage", !.error = e])
    ELSE httpError(w, e, code)

\* The values printSuccess is called with: an AddedMessage, IncrementedMessage
\* or DeletedMessage (msg) with its number, and a ListEntry.
Message(msg, n) == [NoBody EXCEPT !.msg = msg, !.n = n]
ListEntry(item, attempts) ==
    [NoBody EXCEPT !.msg = "ListEntry", !.item = item, !.attempts = attempts]

\* printSuccess(w, contentType, v, code): the status is written first, the
\* Content-Type is set on the header map afterwards. The JSON of a ListEntry
\* holds item and attempts; its plain text is "%d\n" of attempts.
printSuccess(w, contentType, v, code) ==
    LET u == WriteHeader(w, code)
    IN  IF contentType = "application/json"
        THEN Write([u EXCEPT !.header.contentType = AppJSON],
                   [v EXCEPT !.enc = "json",
                             !.shows = IF v.msg = "ListEntry" THEN {"item", "attempts"} ELSE {}])
        ELSE Write([u EXCEPT !.header.contentType = TextPlain],
                   [v EXCEPT !.enc = "text",
                             !.shows = IF v.msg = "ListEntry" THEN {"attempts"} ELSE {}])

\* printListEntries(w, contentType, listEntries): no status is written before
\* the body, and the Content-Type is set for JSON only.
printListEntries(w, contentType, listEntries) ==
    IF contentType = "application/json"
    THEN Write([w EXCEPT !.header.contentType = AppJSON],
               [NoBody EXCEPT !.enc = "json", !.msg = "ListEntryMessage",
                              !.entries = listEntries])
    ELSE Write(w, [NoBody EXCEPT !.enc = "text", !.msg = "ListEntries",
                                 !.entries = listEntries])

\* A negotiation that falls back to JSON.
NegotiatedJSONDefault(contentType) ==
    IF contentType \in {"text/plain", "application/json"} THEN contentType
    ELSE "application/json"

\* HandledContentTypes, and the content type a handler goes on with.
HandledContentTypes == {"text/plain", "application/json"}
Negotiated(contentType) ==
    IF contentType \in HandledContentTypes THEN contentType ELSE "text/plain"

\* A request: method and path with the path values list and item, the query
\* arguments action, count and after_id ("" when absent), the Content-Type
\* header, the body (the nil slice: r.Body is nil) and whether reading the
\* body fails.
NoRequest ==
    [method |-> "", path |-> "", list |-> "", item |-> <<>>, action |-> "",
     count |-> "", afterID |-> <<>>, contentType |-> "", body |-> NilSlice,
     bodyErr |-> FALSE]

\* No request is being served.
NoExchange ==
    [handler |-> "none", req |-> NoRequest, fail |-> FALSE, readFail |-> FALSE,
     w |-> NewWriter]

\* ------------------------------------------------ the store, call by call

VARIABLES
    table,      \* the rows of iidy.lists
    before,     \* the rows when the call that last returned was made
    last,       \* the call that last returned: its arguments and results
    trav,       \* a client's page-by-page traversal of one list
    callers,    \* the statement each concurrent caller has in flight
    origin,     \* the rows when the concurrent callers started
    tally,      \* per item: increment calls returned without error, and raced
    served,     \* the HTTP request being answered, with its response
    copier,     \* the itemCopier a bulk copy reads its rows from
    mem,        \* the in-memory store, with what its last call returned
    workers     \* the workers draining a list: their place in the workflow

vars == <<table, before, last, trav, callers, origin, tally, served,
          copier, mem, workers>>

\* The variables outside the store, its callers and the HTTP adapter.
sideVars == <<copier, mem, workers>>

\* The variables of the concurrent callers.
concVars == <<callers, origin, tally>>

\* The concurrent callers.
Callers == {"c1", "c2"}

\* A caller with no statement in flight.
IdleCaller ==
    [pc |-> "idle", op |-> "none", items |-> NilSlice, seen |-> {},
     held |-> {}, writes |-> {}, affected |-> 0, err |-> ErrNil]

\* No caller has begun, and no increment was counted.
NoCallers == [c \in Callers |-> IdleCaller]
NoTally == [done |-> [i \in Items |-> 0], raced |-> {}]

\* No traversal is under way.
NoTraversal ==
    [state |-> "off", list |-> "", pageSize |-> 0, cursor |-> <<>>,
     afters |-> <<>>, pages |-> <<>>, present |-> {}]

\* No call has returned and waits to be read by its caller.
NoCall ==
    [op |-> "none", list |-> "", item |-> <<>>, items |-> NilSlice,
     after |-> <<>>, count |-> 0, fail |-> FALSE, readFail |-> FALSE,
     affected |-> 0, err |-> ErrNil, found |-> FALSE, attempts |-> 0,
     entries |-> <<>>, stmts |-> 0]

\* The record of a returned single-item call.
OneCall(op, list, item, fail, res) ==
    [NoCall EXCEPT !.op = op, !.list = list, !.item = item, !.fail = fail,
                   !.affected = res.affected, !.err = res.err, !.stmts = res.stmts]

\* The record of a returned batch call.
BatchCall(op, list, items, fail, res) ==
    [NoCall EXCEPT !.op = op, !.list = list, !.items = items, !.fail = fail,
                   !.affected = res.affected, !.err = res.err, !.stmts = res.stmts]

\* No bulk copy is under way.
NoCopier ==
    [pc |-> "none", List |-> "", Items |-> NilSlice, Len |-> 0, I |-> 0,
     rows |-> <<>>, nexts |-> <<>>, err |-> "unread"]

\* NewMemStore(): no list, and no call made.
NoMemStore ==
    [lists |-> {}, rows |-> {}, op |-> "none", err |-> ErrNil,
     attempts |-> 0, ok |-> FALSE]

\* The workers of the download workflow, each about to take its first batch.
Workers == {"w1", "w2"}
NoWorkers ==
    [w \in Workers |-> [pc |-> "take", cursor |-> <<>>, batch |-> <<>>, failed |-> {}]]

\* Would incrementing the rows hit pass the model's cap on attempts?
AtCap(hit) == \E r \in hit : r.attempts >= MaxAttempts

\* The counts a caller may hand to GetBatch (strconv.Atoi accepts a sign).
Counts == -1..MaxCount

Init ==
    /\ table = {}
    /\ before = {}
    /\ last = NoCall
    /\ trav = NoTraversal
    /\ callers = NoCallers
    /\ origin = {}
    /\ tally = NoTally
    /\ served = NoExchange
    /\ copier = NoCopier
    /\ mem = NoMemStore
    /\ workers = NoWorkers

CallInsertOne ==
    /\ last.op = "none"
    /\ \E list \in Lists, fail \in BOOLEAN : \E item \in ItemsOf(list) :
        LET res == InsertOne(table, list, item, fail)
        IN  /\ table' = res.table
            /\ before' = table /\ UNCHANGED <<trav, concVars, served, sideVars>>
            /\ last' = OneCall("InsertOne", list, item, fail, res)

CallGetOne ==
    /\ last.op = "none"
    /\ \E list \in Lists, fail \in BOOLEAN : \E item \in ItemsOf(list) :
        LET res == GetOne(table, list, item, fail)
        IN  /\ table' = res.table
            /\ before' = table /\ UNCHANGED <<trav, concVars, served, sideVars>>
            /\ last' = [NoCall EXCEPT !.op = "GetOne", !.list = list, !.item = item,
                                      !.fail = fail, !.attempts = res.attempts,
                                      !.found = res.found, !.err = res.err,
                                      !.stmts = res.stmts]

CallDeleteOne ==
    /\ last.op = "none"
    /\ \E list \in Lists, fail \in BOOLEAN : \E item \in ItemsOf(list) :
        LET res == DeleteOne(table, list, item, fail)
        IN  /\ table' = res.table
            /\ before' = table /\ UNCHANGED <<trav, concVars, served, sideVars>>
            /\ last' = OneCall("DeleteOne", list, item, fail, res)

CallIncrementOne ==
    /\ last.op = "none"
    /\ \E list \in Lists, fail \in BOOLEAN : \E item \in ItemsOf(list) :
        /\ ~AtCap(Match(table, list, item))
        /\ LET res == IncrementOne(table, list, item, fail)
           IN  /\ table' = res.table
               /\ before' = table /\ UNCHANGED <<trav, concVars, served, sideVars>>
               /\ last' = OneCall("IncrementOne", list, item, fail, res)

CallInsertBatch ==
    /\ last.op = "none"
    /\ \E list \in Lists, fail \in BOOLEAN : \E items \in Slices(list) :
        LET res == InsertBatch(table, list, items, fail)
        IN  /\ table' = res.table
            /\ before' = table /\ UNCHANGED <<trav, concVars, served, sideVars>>
            /\ last' = BatchCall("InsertBatch", list, items, fail, res)

CallGetBatch ==
    /\ last.op = "none"
    /\ \E list \in Lists, count \in Counts, fail, readFail \in BOOLEAN :
       \E startID \in ItemsOf(list) :
        LET res == GetBatch(table, list, startID, count, fail, readFail)
        IN  /\ table' = res.table
            /\ before' = table /\ UNCHANGED <<trav, concVars, served, sideVars>>
            /\ last' = [NoCall EXCEPT !.op = "GetBatch", !.list = list,
                                      !.after = startID, !.count = count,
                                      !.fail = fail, !.readFail = readFail,
                                      !.entries = res.entries,
                                      !.err = res.err, !.stmts = res.stmts]

CallDeleteBatch ==
    /\ last.op = "none"
    /\ \E list \in Lists, fail \in BOOLEAN : \E items \in Slices(list) :
        LET res == DeleteBatch(table, list, items, fail)
        IN  /\ table' = res.table
            /\ before' = table /\ UNCHANGED <<trav, concVars, served, sideVars>>
            /\ last' = BatchCall("DeleteBatch", list, items, fail, res)

CallIncrementBatch ==
    /\ last.op = "none"
    /\ \E list \in Lists, fail \in BOOLEAN : \E items \in Slices(list) :
        /\ ~AtCap(MatchBatch(table, list, items))
        /\ LET res == IncrementBatch(table, list, items, fail)
           IN  /\ table' = res.table
               /\ before' = table /\ UNCHANGED <<trav, concVars, served, sideVars>>
               /\ last' = BatchCall("IncrementBatch", list, items, fail, res)

\* The caller takes the results; the store waits for the next call.
Return ==
    /\ last.op # "none"
    /\ last' = NoCall
    /\ before' = table
    /\ UNCHANGED <<table, trav, concVars, served, sideVars>>

Next ==
    \/ CallInsertOne
    \/ CallGetOne
    \/ CallDeleteOne
    \/ CallIncrementOne
    \/ CallInsertBatch
    \/ CallGetBatch
    \/ CallDeleteBatch
    \/ CallIncrementBatch
    \/ Return

Spec == Init /\ [][Next]_vars

\* ------------------------------------------------ page-by-page traversal
\* A client reads one list page by page: GetBatch(list, "", P), then
\* GetBatch(list, last item of the page before, P), until a page is shorter
\* than P.

\* Largest page size a traversal uses.
MaxPage == 3

\* The traversal is cut after this many pages (a traversal that comes to its
\* end needs at most one page per item of the list and one more).
MaxCalls == 6

\* The items of the rows of list in t.
ItemsIn(t, list) == {r.item : r \in {q \in t : q.list = list}}

\* The tables a traversal may start on: any rows of the first list, at most
\* one per item, and the second list with or without a row.
PagingTables ==
    {rows \cup other :
        rows \in {rs \in SUBSET {Row("l1", i, a) : i \in Items, a \in 0..MaxAttempts} :
                     \A r, q \in rs : r.item = q.item => r = q},
        other \in {{}, {Row("l2", <<1>>, 0)}}}

InitPaging ==
    /\ table \in PagingTables
    /\ before = {}
    /\ last = NoCall
    /\ \E P \in 1..MaxPage :
        trav = [state |-> "paging", list |-> "l1", pageSize |-> P,
                cursor |-> <<>>, afters |-> <<>>, pages |-> <<>>,
                present |-> ItemsIn(table, "l1")]
    /\ callers = NoCallers
    /\ origin = {}
    /\ tally = NoTally
    /\ served = NoExchange
    /\ copier = NoCopier
    /\ mem = NoMemStore
    /\ workers = NoWorkers

\* The traversal after another caller's statement left the table t: an item
\* that lost its row is no longer one present during the whole traversal.
Traversed(t) == [trav EXCEPT !.present = @ \cap ItemsIn(t, trav.list)]

\* The client asks for the next page and keeps its last item as the cursor.
NextPage ==
    /\ trav.state = "paging"
    /\ Len(trav.pages) < MaxCalls
    /\ LET res == GetBatch(table, trav.list, trav.cursor, trav.pageSize, FALSE, FALSE)
           page == [k \in 1..Len(res.entries) |-> res.entries[k].item]
           short == Len(page) < trav.pageSize
       IN  trav' = [trav EXCEPT !.afters = Append(@, trav.cursor),
                                !.pages = Append(@, page),
                                !.state = IF short THEN "done" ELSE "paging",
                                !.cursor = IF short THEN @ ELSE page[Len(page)]]
    /\ UNCHANGED <<table, before, last, concVars, served, sideVars>>

\* Is item i at or before the traversal's cursor?
Visited(i) == i = trav.cursor \/ StrLess(i, trav.cursor)

\* Another caller deletes an item at or before the cursor.
VisitedDeleteOne ==
    /\ trav.state = "paging"
    /\ \E item \in {i \in Items : Visited(i)} :
        /\ table' = DeleteOne(table, trav.list, item, FALSE).table
        /\ trav' = Traversed(table')
    /\ UNCHANGED <<before, last, concVars, served, sideVars>>

\* Another caller increments an item at or before the cursor.
VisitedIncrementOne ==
    /\ trav.state = "paging"
    /\ \E item \in {i \in Items : Visited(i)} :
        /\ ~AtCap(Match(table, trav.list, item))
        /\ table' = IncrementOne(table, trav.list, item, FALSE).table
        /\ trav' = Traversed(table')
    /\ UNCHANGED <<before, last, concVars, served, sideVars>>

\* Another caller deletes a batch of items at or before the cursor.
VisitedDeleteBatch ==
    /\ trav.state = "paging"
    /\ \E items \in {sl \in Slices(trav.list) : \A i \in Unnest(sl) : Visited(i)} :
        /\ table' = DeleteBatch(table, trav.list, items, FALSE).table
        /\ trav' = Traversed(table')
    /\ UNCHANGED <<before, last, concVars, served, sideVars>>

\* Another caller increments a batch of items at or before the cursor.
VisitedIncrementBatch ==
    /\ trav.state = "paging"
    /\ \E items \in {sl \in Slices(trav.list) : \A i \in Unnest(sl) : Visited(i)} :
        /\ ~AtCap(MatchBatch(table, trav.list, items))
        /\ table' = IncrementBatch(table, trav.list, items, FALSE).table
        /\ trav' = Traversed(table')
    /\ UNCHANGED <<before, last, concVars, served, sideVars>>

\* Another caller inserts any item into the list being traversed.
AnyInsertOne ==
    /\ trav.state = "paging"
    /\ \E item \in Items :
        /\ table' = InsertOne(table, trav.list, item, FALSE).table
        /\ trav' = Traversed(table')
    /\ UNCHANGED <<before, last, concVars, served, sideVars>>

\* Another caller inserts any batch of items into the list being traversed.
AnyInsertBatch ==
    /\ trav.state = "paging"
    /\ \E items \in Slices(trav.list) :
        /\ table' = InsertBatch(table, trav.list, items, FALSE).table
        /\ trav' = Traversed(table')
    /\ UNCHANGED <<before, last, concVars, served, sideVars>>

\* Another caller deletes any item of the list being traversed.
AnyDeleteOne ==
    /\ trav.state = "paging"
    /\ \E item \in Items :
        /\ table' = DeleteOne(table, trav.list, item, FALSE).table
        /\ trav' = Traversed(table')
    /\ UNCHANGED <<before, last, concVars, served, sideVars>>

\* Another caller deletes any batch of items of the list being traversed.
AnyDeleteBatch ==
    /\ trav.state = "paging"
    /\ \E items \in Slices(trav.list) :
        /\ table' = DeleteBatch(table, trav.list, items, FALSE).table
        /\ trav' = Traversed(table')
    /\ UNCHANGED <<before, last, concVars, served, sideVars>>

\* A traversal of a list nobody changes.
SpecPaging == InitPaging /\ [][NextPage]_vars

NextPagingVisited ==
    \/ NextPage
    \/ VisitedDeleteOne
    \/ VisitedIncrementOne
    \/ VisitedDeleteBatch
    \/ VisitedIncrementBatch

\* A traversal while other callers delete and increment rows already passed.
SpecPagingVisited == InitPaging /\ [][NextPagingVisited]_vars

NextPagingMutated ==
    \/ NextPage
    \/ AnyInsertOne
    \/ AnyInsertBatch
    \/ AnyDeleteOne
    \/ AnyDeleteBatch

\* A traversal while other callers insert and delete rows of the list.
SpecPagingMutated == InitPaging /\ [][NextPagingMutated]_vars

\* ------------------------------------------------------ concurrent callers
\* Each Exec is one statement in its own transaction. Under PostgreSQL's
\* default isolation an UPDATE finds its rows in the snapshot taken when it
\* starts, locks each row (waiting for a statement that holds it), sets the
\* new value from the row's latest committed version, and makes all its rows
\* visible when it commits.

\* A row is incremented at most this many times.
MaxIncrements == 3

\* The list and items the concurrent callers work on.
ConcList == "l1"
ConcItems == {<<1>>, <<2>>}
ConcSlices == {NilSlice} \cup {MkSlice(s) : s \in SeqsUpTo(ConcItems, MaxBatchLen)}

\* The tables the concurrent callers may start on.
ConcTables ==
    {rs \in SUBSET {Row(ConcList, i, a) : i \in ConcItems, a \in 0..1} :
        \A r, q \in rs : r.item = q.item => r = q}

InitConcurrent ==
    /\ table \in ConcTables
    /\ origin = table
    /\ before = {}
    /\ last = NoCall
    /\ trav = NoTraversal
    /\ callers = NoCallers
    /\ tally = NoTally
    /\ served = NoExchange
    /\ copier = NoCopier
    /\ mem = NoMemStore
    /\ workers = NoWorkers

\* A read-then-write increment: the value read when the statement started.
NewAttemptsFromRead(seenRow, curRow) == seenRow.attempts + 1

\* set attempts = attempts + 1, on the latest committed version of the row.
NewAttempts(seenRow, curRow) == curRow.attempts + 1

\* The items some other caller's statement in flight is to update.
InFlight(c) ==
    UNION {{r.item : r \in callers[d].seen} :
              d \in {e \in DOMAIN callers \ {c} : callers[e].pc = "running"}}

\* The tally after caller c began an increment naming the items in ids.
Begun(c, ids) == [tally EXCEPT !.raced = @ \cup (ids \cap InFlight(c))]

\* May one more increment naming item i begin, under the model's cap?
BelowCap(i) ==
    tally.done[i] + Cardinality({d \in DOMAIN callers : /\ callers[d].pc = "running"
                                                 /\ i \in Unnest(callers[d].items)})
        < MaxIncrements

\* Caller c sends IncrementOne(list, item).
BeginIncrementOne(c) ==
    /\ callers[c].pc = "idle"
    /\ \E item \in ConcItems :
        /\ BelowCap(item)
        /\ callers' = [callers EXCEPT ![c] =
               [IdleCaller EXCEPT !.pc = "running", !.op = "IncrementOne",
                                  !.items = MkSlice(<<item>>),
                                  !.seen = Match(table, ConcList, item)]]
        /\ tally' = Begun(c, {item})
    /\ UNCHANGED <<table, before, last, trav, served, sideVars, origin>>

\* Caller c calls IncrementBatch(list, items): without items it returns at
\* once, otherwise it sends the statement.
BeginIncrementBatch(c) ==
    /\ callers[c].pc = "idle"
    /\ \E items \in ConcSlices :
        /\ \A i \in Unnest(items) : BelowCap(i)
        /\ IF items.isNil \/ Len(items.elems) = 0
           THEN /\ callers' = [callers EXCEPT ![c] =
                       [IdleCaller EXCEPT !.pc = "returned", !.op = "IncrementBatch"]]
                /\ UNCHANGED tally
           ELSE /\ callers' = [callers EXCEPT ![c] =
                       [IdleCaller EXCEPT !.pc = "running", !.op = "IncrementBatch",
                                          !.items = items,
                                          !.seen = MatchBatch(table, ConcList, items)]]
                /\ tally' = Begun(c, Unnest(items))
    /\ UNCHANGED <<table, before, last, trav, served, sideVars, origin>>

\* Caller c's statement locks one of its rows, which no other statement
\* holds, and sets its new value.
UpdateRow(c) ==
    /\ callers[c].pc = "running"
    /\ \E r \in callers[c].seen :
        /\ r.item \notin callers[c].held
        /\ \A d \in DOMAIN callers \ {c} : r.item \notin callers[d].held
        /\ \E cur \in Match(table, r.list, r.item) :
            callers' = [callers EXCEPT ![c].held = @ \cup {r.item},
                                       ![c].writes = @ \cup
                                           {Row(r.list, r.item, NewAttempts(r, cur))}]
    /\ UNCHANGED <<table, before, last, trav, served, sideVars, origin, tally>>

\* Caller c's statement has set all its rows and commits; Exec or CopyFrom
\* returns the rows affected: those deleted, or those written.
Commit(c) ==
    /\ callers[c].pc = "running"
    /\ \A r \in callers[c].seen : r.item \in callers[c].held
    /\ callers[c].op \in {"InsertOne", "InsertBatch"} =>
            Cardinality(callers[c].writes) = Len(callers[c].items.elems)
    /\ table' = {q \in table : ~(q.list = ConcList /\ q.item \in callers[c].held)}
                    \cup callers[c].writes
    /\ callers' = [callers EXCEPT ![c].pc = "returned",
                                  ![c].affected =
                                      IF callers[c].op \in {"DeleteOne", "DeleteBatch"}
                                      THEN Cardinality(callers[c].held)
                                      ELSE Cardinality(callers[c].writes),
                                  ![c].err = ErrNil,
                                  ![c].seen = {}, ![c].held = {}, ![c].writes = {}]
    /\ tally' = [tally EXCEPT !.done =
                    [i \in Items |-> IF i \in Unnest(callers[c].items)
                                     THEN @[i] + 1 ELSE @[i]]]
    /\ UNCHANGED <<before, last, trav, served, sideVars, origin>>

\* Caller c's statement fails (the connection is lost, or the statement is
\* the victim of a deadlock): nothing it set becomes visible; Exec returns
\* the error.
Abort(c) ==
    /\ callers[c].pc = "running"
    /\ callers' = [callers EXCEPT ![c].pc = "returned",
                                  ![c].affected = 0,
                                  ![c].err = IF callers[c].op = "IncrementOne"
                                             THEN ErrOpaque ELSE ErrPgx,
                                  ![c].items = NilSlice,
                                  ![c].seen = {}, ![c].held = {}, ![c].writes = {}]
    /\ UNCHANGED <<table, before, last, trav, served, sideVars, origin, tally>>

\* Caller c takes the results and may call again.
ReturnCaller(c) ==
    /\ callers[c].pc = "returned"
    /\ callers' = [callers EXCEPT ![c] = IdleCaller]
    /\ UNCHANGED <<table, before, last, trav, served, sideVars, origin, tally>>

NextConcurrent ==
    \E c \in Callers :
        \/ BeginIncrementOne(c)
        \/ BeginIncrementBatch(c)
        \/ UpdateRow(c)
        \/ Commit(c)
        \/ Abort(c)
        \/ ReturnCaller(c)

\* Concurrent callers incrementing rows of one list.
SpecConcurrent == InitConcurrent /\ [][NextConcurrent]_vars

\* Concurrent inserts and deletes.  An INSERT or COPY puts its rows in one
\* by one, in input order: a row whose key another statement in flight holds
\* makes it wait for that statement to end, a row whose key has a committed
\* row (or was put in by the statement itself) fails the statement on
\* list_pk.  A DELETE finds its rows in the snapshot taken when it starts and
\* locks each one, waiting for a statement that holds it; a row that is gone
\* by then is passed over.  Each caller makes one call, and the store answers
\* every statement of an insert.

\* The callers of the concurrent inserts and deletes.
ThreeCallers == Callers \cup {"c3"}

\* Three callers about to call, on any of the tables.
InitConcurrentCalls ==
    /\ table \in ConcTables
    /\ origin = table
    /\ before = {}
    /\ last = NoCall
    /\ trav = NoTraversal
    /\ callers = [c \in ThreeCallers |-> IdleCaller]
    /\ tally = NoTally
    /\ served = NoExchange
    /\ copier = NoCopier
    /\ mem = NoMemStore
    /\ workers = NoWorkers

\* Caller c sends InsertOne(list, item).
BeginInsertOne(c) ==
    /\ callers[c].pc = "idle"
    /\ \E item \in ConcItems :
        callers' = [callers EXCEPT ![c] =
            [IdleCaller EXCEPT !.pc = "running", !.op = "InsertOne",
                               !.items = MkSlice(<<item>>)]]
    /\ UNCHANGED <<table, before, last, trav, served, sideVars, origin, tally>>

\* Caller c calls InsertBatch(list, items): without items it returns at
\* once, otherwise it starts the copy.
BeginInsertBatch(c) ==
    /\ callers[c].pc = "idle"
    /\ \E items \in ConcSlices :
        callers' = [callers EXCEPT ![c] =
            [IdleCaller EXCEPT !.op = "InsertBatch", !.items = items,
                               !.pc = IF items.isNil \/ Len(items.elems) = 0
                                      THEN "returned" ELSE "running"]]
    /\ UNCHANGED <<table, before, last, trav, served, sideVars, origin, tally>>

\* The statement of caller c has ended with the error err.
Failed(c, err) ==
    [callers EXCEPT ![c].pc = "returned", ![c].affected = 0, ![c].err = err,
                    ![c].seen = {}, ![c].held = {}, ![c].writes = {}]

\* The item of the row caller c's insert is to put in next.
NextItem(c) == callers[c].items.elems[Cardinality(callers[c].writes) + 1]

\* Is caller c's insert waiting for a key that caller d's statement holds?
WaitsFor(c, d) ==
    /\ callers[c].pc = "running"
    /\ callers[c].op \in {"InsertOne", "InsertBatch"}
    /\ Cardinality(callers[c].writes) < Len(callers[c].items.elems)
    /\ NextItem(c) \in callers[d].held

\* An insert that neither waits for a key in flight nor sees a committed row.
InsertRowUnchecked(c) ==
    /\ callers[c].pc = "running"
    /\ callers[c].op \in {"InsertOne", "InsertBatch"}
    /\ Cardinality(callers[c].writes) < Len(callers[c].items.elems)
    /\ callers' = [callers EXCEPT ![c].held = @ \cup {NextItem(c)},
                                  ![c].writes = @ \cup {Row(ConcList, NextItem(c), 0)}]
    /\ UNCHANGED <<table, before, last, trav, served, sideVars, origin, tally>>

\* Caller c's insert puts in its next row, or fails on list_pk.
InsertRow(c) ==
    /\ callers[c].pc = "running"
    /\ callers[c].op \in {"InsertOne", "InsertBatch"}
    /\ Cardinality(callers[c].writes) < Len(callers[c].items.elems)
    /\ \A d \in DOMAIN callers \ {c} : ~WaitsFor(c, d)
    /\ IF NextItem(c) \in callers[c].held \/ ViolatesPK(table, ConcList, NextItem(c))
       THEN callers' = Failed(c, ErrPgx)
       ELSE callers' = [callers EXCEPT ![c].held = @ \cup {NextItem(c)},
                                       ![c].writes = @ \cup {Row(ConcList, NextItem(c), 0)}]
    /\ UNCHANGED <<table, before, last, trav, served, sideVars, origin, tally>>

\* Two inserts wait for each other's keys: the store ends one of them with
\* an error.
Deadlock(c) ==
    /\ \E d \in DOMAIN callers \ {c} : WaitsFor(c, d) /\ WaitsFor(d, c)
    /\ callers' = Failed(c, ErrPgx)
    /\ UNCHANGED <<table, before, last, trav, served, sideVars, origin, tally>>

\* Concurrent callers inserting rows of one list, and incrementing them.
NextConcurrentInserts ==
    \E c \in ThreeCallers :
        \/ BeginInsertOne(c)
        \/ BeginInsertBatch(c)
        \/ InsertRow(c)
        \/ Deadlock(c)
        \/ BeginIncrementOne(c)
        \/ UpdateRow(c)
        \/ Commit(c)

SpecConcurrentInserts == InitConcurrentCalls /\ [][NextConcurrentInserts]_vars

\* Caller c sends DeleteOne(list, item).
BeginDeleteOne(c) ==
    /\ callers[c].pc = "idle"
    /\ \E item \in ConcItems :
        callers' = [callers EXCEPT ![c] =
            [IdleCaller EXCEPT !.pc = "running", !.op = "DeleteOne",
                               !.items = MkSlice(<<item>>),
                               !.seen = Match(table, ConcList, item)]]
    /\ UNCHANGED <<table, before, last, trav, served, sideVars, origin, tally>>

\* Caller c calls DeleteBatch(list, items): without items it returns at
\* once, otherwise it sends the statement.
BeginDeleteBatch(c) ==
    /\ callers[c].pc = "idle"
    /\ \E items \in ConcSlices :
        callers' = [callers EXCEPT ![c] =
            [IdleCaller EXCEPT !.op = "DeleteBatch", !.items = items,
                               !.pc = IF items.isNil \/ Len(items.elems) = 0
                                      THEN "returned" ELSE "running",
                               !.seen = MatchBatch(table, ConcList, items)]]
    /\ UNCHANGED <<table, before, last, trav, served, sideVars, origin, tally>>

\* A delete that counts a row of its snapshot another statement has removed.
DeleteRowOfSnapshot(c) ==
    /\ callers[c].pc = "running"
    /\ callers[c].op \in {"DeleteOne", "DeleteBatch"}
    /\ \E r \in callers[c].seen :
        /\ r.item \notin callers[c].held
        /\ \A d \in DOMAIN callers \ {c} : r.item \notin callers[d].held
        /\ callers' = [callers EXCEPT ![c].held = @ \cup {r.item}]
    /\ UNCHANGED <<table, before, last, trav, served, sideVars, origin, tally>>

\* Caller c's delete locks one of its rows, which no other statement holds,
\* or passes over it when it is gone.
DeleteRow(c) ==
    /\ callers[c].pc = "running"
    /\ callers[c].op \in {"DeleteOne", "DeleteBatch"}
    /\ \E r \in callers[c].seen :
        /\ r.item \notin callers[c].held
        /\ \A d \in DOMAIN callers \ {c} : r.item \notin callers[d].held
        /\ IF Match(table, r.list, r.item) = {}
           THEN callers' = [callers EXCEPT ![c].seen = @ \ {r}]
           ELSE callers' = [callers EXCEPT ![c].held = @ \cup {r.item}]
    /\ UNCHANGED <<table, before, last, trav, served, sideVars, origin, tally>>

\* Concurrent callers deleting rows of one list.
NextConcurrentDeletes ==
    \E c \in ThreeCallers :
        \/ BeginDeleteOne(c)
        \/ BeginDeleteBatch(c)
        \/ DeleteRow(c)
        \/ Commit(c)
        \/ Abort(c)

SpecConcurrentDeletes == InitConcurrentCalls /\ [][NextConcurrentDeletes]_vars

\* ------------------------------------------------- the HTTP adapter: codec
\* Request bodies are sequences of byte codes. The codes 1 and 2 of Items
\* stand for two letters; the other bytes a body may hold are the newline,
\* the space and these.

\* The bytes of JSON's punctuation.
Quote == 34
Comma == 44
Colon == 58
LBrack == 91
RBrack == 93
LBrace == 123
RBrace == 125

\* The bytes of the key of ItemListMessage.Items (json:"items") and of null.
ItemsKey == <<105, 116, 101, 109, 115>>
NullLit == <<110, 117, 108, 108>>

\* Errors of encoding/json: a *json.SyntaxError, a *json.UnmarshalTypeError.
ErrSyntax == "json syntax"
ErrType == "json type"

\* A split that leaves the empty pieces out.
RECURSIVE SplitSkippingBlank(_, _)
SplitSkippingBlank(s, piece) ==
    IF s = <<>> THEN (IF piece = <<>> THEN <<>> ELSE <<piece>>)
    ELSE IF Head(s) = NL
    THEN (IF piece = <<>> THEN <<>> ELSE <<piece>>) \o SplitSkippingBlank(Tail(s), <<>>)
    ELSE SplitSkippingBlank(Tail(s), Append(piece, Head(s)))

\* strings.Split(s, "\n"): the pieces between the separators, one more than
\* there are separators; Split("") is one empty string.
RECURSIVE Split(_, _)
Split(s, piece) ==
    IF s = <<>> THEN <<piece>>
    ELSE IF Head(s) = NL THEN <<piece>> \o Split(Tail(s), <<>>)
    ELSE Split(Tail(s), Append(piece, Head(s)))

\* A plain-text decoder that splits the payload without trimming it.
getItemsFromPlainTextUntrimmed(bodyBytes) ==
    IF bodyBytes.isNil \/ Len(bodyBytes.elems) = 0
    THEN NilSlice
    ELSE MkSlice(Split(bodyBytes.elems, <<>>))

\* getItemsFromPlainText(bodyBytes)
getItemsFromPlainText(bodyBytes) ==
    IF bodyBytes.isNil \/ Len(bodyBytes.elems) = 0
    THEN NilSlice
    ELSE MkSlice(Split(TrimSpace(bodyBytes.elems), <<>>))

\* A JSON value of type t: "null", a "string" s, an "array" of kids, an
\* "object" whose kids are its members (key, val) in the order of the text.
JValue(t, s, kids) == [t |-> t, s |-> s, kids |-> kids]

\* What the scanner gives: the value read and the position behind it, or not
\* ok on an invalid character or an unexpected end of input.
Scanned(val, pos) == [ok |-> TRUE, val |-> val, pos |-> pos]
Invalid == [ok |-> FALSE, val |-> JValue("null", <<>>, <<>>), pos |-> 0]

\* The position of the first byte from p on that is not white space.
RECURSIVE SkipSpace(_, _)
SkipSpace(b, p) == IF p <= Len(b) /\ IsSpace(b[p]) THEN SkipSpace(b, p + 1) ELSE p

\* Is the byte at p the byte c?
At(b, p, c) == p <= Len(b) /\ b[p] = c

\* The position of the quote that closes the string whose text starts at p,
\* or 0: the input ends first, or a control character stands in the string.
RECURSIVE StringEnd(_, _)
StringEnd(b, p) ==
    IF p > Len(b) \/ b[p] = NL THEN 0
    ELSE IF b[p] = Quote THEN p
    ELSE StringEnd(b, p + 1)

\* A string literal at p (the opening quote).
ScanString(b, p) ==
    IF ~At(b, p, Quote) \/ StringEnd(b, p + 1) = 0
    THEN Invalid
    ELSE Scanned(JValue("string", SubSeq(b, p + 1, StringEnd(b, p + 1) - 1), <<>>),
                 StringEnd(b, p + 1) + 1)

RECURSIVE ScanValue(_, _), ScanElems(_, _, _), ScanMembers(_, _, _), ScanMember(_, _, _, _),
          EndMember(_, _, _)

\* A value at or after p.
ScanValue(b, p) ==
    LET q == SkipSpace(b, p)
    IN  IF At(b, q, Quote) THEN ScanString(b, q)
        ELSE IF q + 3 <= Len(b) /\ SubSeq(b, q, q + 3) = NullLit
        THEN Scanned(JValue("null", <<>>, <<>>), q + 4)
        ELSE IF At(b, q, LBrack)
        THEN IF At(b, SkipSpace(b, q + 1), RBrack)
             THEN Scanned(JValue("array", <<>>, <<>>), SkipSpace(b, q + 1) + 1)
             ELSE ScanElems(b, q + 1, <<>>)
        ELSE IF At(b, q, LBrace)
        THEN IF At(b, SkipSpace(b, q + 1), RBrace)
             THEN Scanned(JValue("object", <<>>, <<>>), SkipSpace(b, q + 1) + 1)
             ELSE ScanMembers(b, q + 1, <<>>)
        ELSE Invalid

\* The elements of an array from p on, behind the elements acc.
ScanElems(b, p, acc) ==
    LET v == ScanValue(b, p)
        q == SkipSpace(b, v.pos)
    IN  IF ~v.ok THEN Invalid
        ELSE IF At(b, q, Comma) THEN ScanElems(b, q + 1, Append(acc, v.val))
        ELSE IF At(b, q, RBrack) THEN Scanned(JValue("array", <<>>, Append(acc, v.val)), q + 1)
        ELSE Invalid

\* Behind a member: a comma and the next member, or the end of the object.
EndMember(b, q, acc) ==
    IF At(b, q, Comma) THEN ScanMembers(b, q + 1, acc)
    ELSE IF At(b, q, RBrace) THEN Scanned(JValue("object", <<>>, acc), q + 1)
    ELSE Invalid

\* The member with the key scanned as k: a colon at c, then the value.
ScanMember(b, k, c, acc) ==
    IF ~k.ok \/ ~At(b, c, Colon) THEN Invalid
    ELSE LET v == ScanValue(b, c + 1)
         IN  IF ~v.ok THEN Invalid
             ELSE EndMember(b, SkipSpace(b, v.pos),
                            Append(acc, [key |-> k.val.s, val |-> v.val]))

\* The members of an object from p on, behind the members acc.
ScanMembers(b, p, acc) ==
    LET k == ScanString(b, SkipSpace(b, p))
    IN  ScanMember(b, k, SkipSpace(b, k.pos), acc)

\* An array stored into a []string: a string element as it is, a null element
\* as "", and any other element left "" with a type error.
StoreStrings(kids) ==
    [items |-> MkSlice([k \in 1..Len(kids) |-> IF kids[k].t = "string" THEN kids[k].s ELSE <<>>]),
     err |-> IF \E k \in 1..Len(kids) : kids[k].t \notin {"string", "null"}
             THEN ErrType ELSE ErrNil]

\* The members of an object stored into the ItemListMessage msg, in the order
\* of the text: a member named items sets Items from an array, leaves it
\* alone when null, and is a type error otherwise; other members are
\* skipped; the first error is the one kept.
RECURSIVE StoreMembers(_, _)
StoreMembers(kids, msg) ==
    IF kids = <<>> THEN msg
    ELSE LET m == Head(kids)
             keep(err) == IF msg.err # ErrNil THEN msg.err ELSE err
         IN  IF m.key # ItemsKey \/ m.val.t = "null" THEN StoreMembers(Tail(kids), msg)
             ELSE IF m.val.t = "array"
             THEN StoreMembers(Tail(kids),
                               [msg EXCEPT !.items = StoreStrings(m.val.kids).items,
                                           !.err = keep(StoreStrings(m.val.kids).err)])
             ELSE StoreMembers(Tail(kids), [msg EXCEPT !.err = keep(ErrType)])

\* json.Unmarshal(b, &msg) with var msg *ItemListMessage, v being the value
\* scanned from the first byte of b on: a syntax error unless v is one value
\* with white space around it and nothing else (checkValid); isNil tells
\* whether msg is still the nil pointer afterwards.
Unmarshal(b, v) ==
    IF ~(v.ok /\ SkipSpace(b, v.pos) = Len(b) + 1)
    THEN [isNil |-> TRUE, items |-> NilSlice, err |-> ErrSyntax]
    ELSE IF v.val.t = "null"
    THEN [isNil |-> TRUE, items |-> NilSlice, err |-> ErrNil]
    ELSE IF v.val.t = "object"
    THEN StoreMembers(v.val.kids, [isNil |-> FALSE, items |-> NilSlice, err |-> ErrNil])
    ELSE [isNil |-> FALSE, items |-> NilSlice, err |-> ErrType]

\* What decoding a body comes to: the items and the error returned, or a
\* panic (a nil pointer dereference) instead of a return.
Decoded(items, err, panics) == [items |-> items, err |-> err, panics |-> panics]

\* if err != nil { return nil, err }; return msg.Items, nil: msg.Items is
\* evaluated also when msg is nil.
ReturnItems(u) ==
    IF u.err # ErrNil THEN Decoded(NilSlice, u.err, FALSE)
    ELSE IF u.isNil THEN Decoded(NilSlice, ErrNil, TRUE)
    ELSE Decoded(u.items, ErrNil, FALSE)

\* getItemsFromJSON(bodyBytes)
getItemsFromJSON(bodyBytes) ==
    IF bodyBytes.isNil \/ Len(bodyBytes.elems) = 0
    THEN Decoded(NilSlice, ErrNil, FALSE)
    ELSE ReturnItems(Unmarshal(bodyBytes.elems, ScanValue(bodyBytes.elems, 1)))

\* getItemsFromBody(contentType, bodyBytes)
getItemsFromBody(contentType, bodyBytes) ==
    IF bodyBytes.isNil \/ Len(bodyBytes.elems) = 0
    THEN Decoded(NilSlice, ErrNil, FALSE)
    ELSE IF contentType = "application/json"
    THEN getItemsFromJSON(bodyBytes)
    ELSE Decoded(getItemsFromPlainText(bodyBytes), ErrNil, FALSE)

\* ------------------------------------------------ the HTTP adapter: handlers

\* The paths of the routes registered in main.
ItemPath == "/iidy/v1/lists/{list}/{item}"
IncrementItemPath == "/iidy/v1/increment/lists/{list}/{item}"
BatchPath == "/iidy/v1/batch/lists/{list}"
IncrementBatchPath == "/iidy/v1/increment/batch/lists/{list}"

\* strconv.Atoi(countStr) over the decimal texts of Counts; its error is a
\* *strconv.NumError.
Atoi(countStr) ==
    IF \E n \in Counts : ToString(n) = countStr
    THEN [n |-> CHOOSE n \in Counts : ToString(n) = countStr, err |-> ErrNil]
    ELSE [n |-> 0, err |-> "strconv"]

\* What a handler leaves: the table, the response, and the store call it made
\* (NoCall when it returned before calling the store).
Handled(t, w, call) == [table |-> t, w |-> w, call |-> call]

\* The writer after w.Header().Set("X-Content-Type-Options", "nosniff").
Nosniff == [NewWriter EXCEPT !.header.nosniff = TRUE]

\* A handler that takes a failed GetOne for a missing item.
HandleGetOneHidingError(t, r, fail) ==
    LET contentType == Negotiated(r.contentType)
        res == GetOne(t, r.list, r.item, fail)
        call == [NoCall EXCEPT !.op = "GetOne", !.list = r.list, !.item = r.item,
                               !.fail = fail, !.attempts = res.attempts,
                               !.found = res.found, !.err = res.err, !.stmts = res.stmts]
    IN  IF ~res.found
        THEN Handled(res.table,
                 printError(Nosniff, contentType, ErrorMessage("Not found.", ErrNil), 404), call)
        ELSE Handled(res.table,
                 printSuccess(Nosniff, contentType, ListEntry(r.item, res.attempts), 200), call)

\* handlers.InsertOne
HandleInsertOne(t, r, fail) ==
    LET contentType == Negotiated(r.contentType)
        res == InsertOne(t, r.list, r.item, fail)
        call == OneCall("InsertOne", r.list, r.item, fail, res)
    IN  IF res.err # ErrNil
        THEN Handled(res.table,
                 printError(Nosniff, contentType,
                            ErrorMessage("Error trying to add list item", res.err), 500), call)
        ELSE Handled(res.table,
                 printSuccess(Nosniff, contentType, Message("AddedMessage", res.affected), 201), call)

\* handlers.GetOne
HandleGetOne(t, r, fail) ==
    LET contentType == Negotiated(r.contentType)
        res == GetOne(t, r.list, r.item, fail)
        call == [NoCall EXCEPT !.op = "GetOne", !.list = r.list, !.item = r.item,
                               !.fail = fail, !.attempts = res.attempts,
                               !.found = res.found, !.err = res.err, !.stmts = res.stmts]
    IN  IF res.err # ErrNil
        THEN Handled(res.table,
                 printError(Nosniff, contentType,
                            ErrorMessage("Error trying to get list item", res.err), 500), call)
        ELSE IF ~res.found
        THEN Handled(res.table,
                 printError(Nosniff, contentType, ErrorMessage("Not found.", ErrNil), 404), call)
        ELSE Handled(res.table,
                 printSuccess(Nosniff, contentType, ListEntry(r.item, res.attempts), 200), call)

\* handlers.DeleteOne
HandleDeleteOne(t, r, fail) ==
    LET contentType == Negotiated(r.contentType)
        res == DeleteOne(t, r.list, r.item, fail)
        call == OneCall("DeleteOne", r.list, r.item, fail, res)
    IN  IF res.err # ErrNil
        THEN Handled(res.table,
                 printError(Nosniff, contentType,
                            ErrorMessage("Error trying to delete list item", res.err), 500), call)
        ELSE Handled(res.table,
                 printSuccess(Nosniff, contentType, Message("DeletedMessage", res.affected), 200), call)

\* handlers.IncrementOne
HandleIncrementOne(t, r, fail) ==
    LET contentType == Negotiated(r.contentType)
        res == IncrementOne(t, r.list, r.item, fail)
        call == OneCall("IncrementOne", r.list, r.item, fail, res)
    IN  IF res.err # ErrNil
        THEN Handled(res.table,
                 printError(Nosniff, contentType,
                            ErrorMessage("Error trying to increment list item", res.err), 500), call)
        ELSE Handled(res.table,
                 printSuccess(Nosniff, contentType, Message("IncrementedMessage", res.affected), 200), call)

\* handlers.InsertBatch
HandleInsertBatch(t, r, fail) ==
    LET contentType == Negotiated(r.contentType)
        got == getItemsFromBody(contentType, r.body)
        res == InsertBatch(t, r.list, got.items, fail)
        call == BatchCall("InsertBatch", r.list, got.items, fail, res)
    IN  IF ~r.body.isNil /\ r.bodyErr
        THEN Handled(t, printError(NewWriter, contentType,
                                   ErrorMessage("Error trying to read request body", "read"), 500),
                     NoCall)
        ELSE IF r.body.isNil
        THEN Handled(t, printSuccess(Nosniff, contentType, Message("AddedMessage", 0), 200), NoCall)
        ELSE IF got.panics
        THEN Handled(t, [Nosniff EXCEPT !.aborted = TRUE], NoCall)
        ELSE IF got.err # ErrNil
        THEN Handled(t, printError(Nosniff, contentType,
                                   ErrorMessage("Error trying to parse list of items from request body",
                                                got.err), 500),
                     NoCall)
        ELSE IF res.err # ErrNil
        THEN Handled(res.table,
                 printError(Nosniff, contentType,
                            ErrorMessage("Error trying to add list items", res.err), 500), call)
        ELSE Handled(res.table,
                 printSuccess(Nosniff, contentType, Message("AddedMessage", res.affected), 201), call)

\* handlers.DeleteBatch
HandleDeleteBatch(t, r, fail) ==
    LET contentType == Negotiated(r.contentType)
        got == getItemsFromBody(contentType, r.body)
        res == DeleteBatch(t, r.list, got.items, fail)
        call == BatchCall("DeleteBatch", r.list, got.items, fail, res)
    IN  IF ~r.body.isNil /\ r.bodyErr
        THEN Handled(t, printError(NewWriter, contentType,
                                   ErrorMessage("Error trying to read request body", "read"), 500),
                     NoCall)
        ELSE IF r.body.isNil
        THEN Handled(t, printSuccess(Nosniff, contentType, Message("AddedMessage", 0), 200), NoCall)
        ELSE IF got.panics
        THEN Handled(t, [Nosniff EXCEPT !.aborted = TRUE], NoCall)
        ELSE IF got.err # ErrNil
        THEN Handled(t, printError(Nosniff, contentType,
                                   ErrorMessage("Error trying to parse list of items from request body",
                                                got.err), 500),
                     NoCall)
        ELSE IF res.err # ErrNil
        THEN Handled(res.table,
                 printError(Nosniff, contentType,
                            ErrorMessage("Error trying to delete list items", res.err), 500), call)
        ELSE Handled(res.table,
                 printSuccess(Nosniff, contentType, Message("DeletedMessage", res.affected), 200), call)

\* A batch-get handler that takes a missing count for count = 0.
HandleGetBatchCountOptional(t, r, fail, readFail) ==
    LET contentType == Negotiated(r.contentType)
        n == Atoi(r.count)
        res == GetBatch(t, r.list, r.afterID, n.n, fail, readFail)
        call == [NoCall EXCEPT !.op = "GetBatch", !.list = r.list, !.after = r.afterID,
                               !.count = n.n, !.fail = fail, !.readFail = readFail,
                               !.entries = res.entries, !.err = res.err,
                               !.stmts = res.stmts]
    IN  IF r.count = ""
        THEN Handled(t, WriteHeader(Nosniff, 200), NoCall)
        ELSE IF n.err # ErrNil
        THEN Handled(t, printError(Nosniff, contentType,
                                   ErrorMessage("For query arg count, %v is not a number", n.err),
                                   500),
                     NoCall)
        ELSE IF n.n = 0
        THEN Handled(t, WriteHeader(Nosniff, 200), NoCall)
        ELSE IF Len(res.entries) = 0
        THEN Handled(res.table, WriteHeader(Nosniff, 200), call)
        ELSE Handled(res.table,
                 printListEntries([Nosniff EXCEPT !.header.lastItem =
                                                      <<res.entries[Len(res.entries)].item>>],
                                  contentType, res.entries),
                 call)

\* handlers.GetBatch: the error of data.GetBatch is assigned and not read.
HandleGetBatch(t, r, fail, readFail) ==
    LET contentType == Negotiated(r.contentType)
        n == Atoi(r.count)
        res == GetBatch(t, r.list, r.afterID, n.n, fail, readFail)
        call == [NoCall EXCEPT !.op = "GetBatch", !.list = r.list, !.after = r.afterID,
                               !.count = n.n, !.fail = fail, !.readFail = readFail,
                               !.entries = res.entries, !.err = res.err,
                               !.stmts = res.stmts]
    IN  IF r.count = ""
        THEN Handled(t, printError(Nosniff, contentType,
                                   ErrorMessage("Query arg not found: count", ErrNil), 400),
                     NoCall)
        ELSE IF n.err # ErrNil
        THEN Handled(t, printError(Nosniff, contentType,
                                   ErrorMessage("For query arg count, %v is not a number", n.err),
                                   500),
                     NoCall)
        ELSE IF n.n = 0
        THEN Handled(t, WriteHeader(Nosniff, 200), NoCall)
        ELSE IF Len(res.entries) = 0
        THEN Handled(res.table, WriteHeader(Nosniff, 200), call)
        ELSE Handled(res.table,
                 printListEntries([Nosniff EXCEPT !.header.lastItem =
                                                      <<res.entries[Len(res.entries)].item>>],
                                  contentType, res.entries),
                 call)

\* handlers.IncrementBatch
HandleIncrementBatch(t, r, fail) ==
    LET contentType == Negotiated(r.contentType)
        got == getItemsFromBody(contentType, r.body)
        res == IncrementBatch(t, r.list, got.items, fail)
        call == BatchCall("IncrementBatch", r.list, got.items, fail, res)
    IN  IF ~r.body.isNil /\ r.bodyErr
        THEN Handled(t, printError(NewWriter, contentType,
                                   ErrorMessage("Error trying to read request body", "read"), 500),
                     NoCall)
        ELSE IF r.body.isNil
        THEN Handled(t, printSuccess(Nosniff, contentType, Message("AddedMessage", 0), 200), NoCall)
        ELSE IF got.panics
        THEN Handled(t, [Nosniff EXCEPT !.aborted = TRUE], NoCall)
        ELSE IF got.err # ErrNil
        THEN Handled(t, printError(Nosniff, contentType,
                                   ErrorMessage("Error trying to parse list of items from request body",
                                                got.err), 500),
                     NoCall)
        ELSE IF res.err # ErrNil
        THEN Handled(res.table,
                 printError(Nosniff, contentType,
                            ErrorMessage("Error trying to increment list items", res.err), 500), call)
        ELSE Handled(res.table,
                 printSuccess(Nosniff, contentType, Message("IncrementedMessage", res.affected), 200), call)

\* ------------------------------------------------- the HTTP adapter: server
\* The server takes one request at a time: the router picks the handler, the
\* handler runs to its end (store call included) and the client reads the
\* response.

\* The handler main registers for a method and a path, "" when none.
Route(method, path) ==
    IF method = "POST" /\ path = ItemPath THEN "InsertOne"
    ELSE IF method = "GET" /\ path = ItemPath THEN "GetOne"
    ELSE IF method = "DELETE" /\ path = ItemPath THEN "DeleteOne"
    ELSE IF method = "POST" /\ path = IncrementItemPath THEN "IncrementOne"
    ELSE IF method = "POST" /\ path = BatchPath THEN "InsertBatch"
    ELSE IF method = "DELETE" /\ path = BatchPath THEN "DeleteBatch"
    ELSE IF method = "GET" /\ path = BatchPath THEN "GetBatch"
    ELSE IF method = "POST" /\ path = IncrementBatchPath THEN "IncrementBatch"
    ELSE ""

\* The Content-Type headers clients send: none, the two handled ones, another.
ContentTypes == {"", "text/plain", "application/json", "text/html"}

\* The items clients name in a path (a path value is never empty).
PathItems == {<<1>>, <<2>>}

\* A client's encoding of items as a plain-text payload: joined by "\n".
RECURSIVE TextPayload(_)
TextPayload(items) ==
    IF items = <<>> THEN <<>>
    ELSE IF Len(items) = 1 THEN Head(items)
    ELSE Head(items) \o <<NL>> \o TextPayload(Tail(items))

\* "a","b": the items as JSON strings joined by commas.
RECURSIVE JSONStrings(_)
JSONStrings(items) ==
    IF items = <<>> THEN <<>>
    ELSE IF Len(items) = 1 THEN <<Quote>> \o Head(items) \o <<Quote>>
    ELSE <<Quote>> \o Head(items) \o <<Quote, Comma>> \o JSONStrings(Tail(items))

\* {"items":v} for the JSON text v.
JSONObject(v) == <<LBrace, Quote>> \o ItemsKey \o <<Quote, Colon>> \o v \o <<RBrace>>

\* A client's encoding of items as a JSON payload: {"items":["a","b"]}.
JSONPayload(items) == JSONObject(<<LBrack>> \o JSONStrings(items) \o <<RBrack>>)

\* The plain-text bodies sent: empty, one item, two items, an item between
\* newlines, a lone space, one item twice, an item that ends with a space
\* before another item.
TextBodies ==
    {<<>>, TextPayload(<<<<1>>>>), TextPayload(<<<<1>>, <<2>>>>), <<NL, 1, NL>>, <<SP>>,
     TextPayload(<<<<2>>, <<2>>>>), TextPayload(<<<<2, SP>>, <<1>>>>)}

\* The JSON bodies sent: one item, two items, no item, null, {}, [], a
\* payload cut short, {"items":null}, {"items":"a"}.
JSONBodies ==
    {JSONPayload(<<<<1>>>>), JSONPayload(<<<<2>>, <<1>>>>), JSONPayload(<<>>), NullLit,
     <<LBrace, RBrace>>, <<LBrack, RBrack>>,
     SubSeq(JSONPayload(<<<<1>>>>), 1, Len(JSONPayload(<<<<1>>>>)) - 2),
     JSONObject(NullLit), JSONObject(JSONStrings(<<<<1>>>>))}

\* The requests sent. For one item: every method on both item paths, with
\* and without the action query argument the README writes. With a batch, on
\* list l1 (the other list is read and written item by item only): without
\* a body, with a plain-text body under every Content-Type, with a JSON body
\* as application/json, and with a body that cannot be read. For a page: the
\* count absent, not a number, and the numbers of Counts.
Requests ==
    {[NoRequest EXCEPT !.method = m, !.path = p, !.list = l, !.item = i,
                       !.action = a, !.contentType = c] :
        m \in {"GET", "POST", "DELETE"}, p \in {ItemPath, IncrementItemPath}, l \in Lists,
        i \in PathItems, a \in {"", "increment"}, c \in ContentTypes}
    \cup
    {[NoRequest EXCEPT !.method = m, !.path = p, !.list = "l1", !.action = a,
                       !.contentType = hb[1], !.body = hb[2], !.bodyErr = hb[3]] :
        m \in {"POST", "DELETE"}, p \in {BatchPath, IncrementBatchPath},
        a \in {"", "increment"},
        hb \in ({<<c, NilSlice, FALSE>> : c \in ContentTypes}
                \cup {<<c, MkSlice(b), FALSE>> : c \in ContentTypes, b \in TextBodies}
                \cup {<<"application/json", MkSlice(b), FALSE>> : b \in JSONBodies}
                \cup {<<"text/plain", MkSlice(<<>>), TRUE>>})}
    \cup
    {[NoRequest EXCEPT !.method = "GET", !.path = p, !.list = "l1",
                       !.count = n, !.afterID = s, !.contentType = c] :
        p \in {BatchPath, IncrementBatchPath},
        n \in {"", "x"} \cup {ToString(k) : k \in Counts},
        s \in PathItems \cup {<<>>}, c \in ContentTypes}

\* The handler named runs for request r and leaves res (attempts stay under
\* the model's cap). The server takes a request when it serves none.
Serve(handler, r, fail, readFail, res) ==
    /\ last.op = "none"
    /\ \A q \in res.table : q.attempts <= MaxAttempts
    /\ table' = res.table
    /\ before' = table
    /\ last' = res.call
    /\ served' = [handler |-> handler, req |-> r, fail |-> fail, readFail |-> readFail,
                  w |-> res.w]
    /\ UNCHANGED <<trav, concVars, sideVars>>

ServeInsertOne ==
    /\ served.handler = "none"
    /\ \E r \in Requests, fail \in BOOLEAN :
            /\ Route(r.method, r.path) = "InsertOne"
            /\ Serve("InsertOne", r, fail, FALSE, HandleInsertOne(table, r, fail))

ServeGetOne ==
    /\ served.handler = "none"
    /\ \E r \in Requests, fail \in BOOLEAN :
            /\ Route(r.method, r.path) = "GetOne"
            /\ Serve("GetOne", r, fail, FALSE, HandleGetOne(table, r, fail))

ServeDeleteOne ==
    /\ served.handler = "none"
    /\ \E r \in Requests, fail \in BOOLEAN :
            /\ Route(r.method, r.path) = "DeleteOne"
            /\ Serve("DeleteOne", r, fail, FALSE, HandleDeleteOne(table, r, fail))

ServeIncrementOne ==
    /\ served.handler = "none"
    /\ \E r \in Requests, fail \in BOOLEAN :
            /\ Route(r.method, r.path) = "IncrementOne"
            /\ Serve("IncrementOne", r, fail, FALSE, HandleIncrementOne(table, r, fail))

ServeInsertBatch ==
    /\ served.handler = "none"
    /\ \E r \in Requests, fail \in BOOLEAN :
            /\ Route(r.method, r.path) = "InsertBatch"
            /\ Serve("InsertBatch", r, fail, FALSE, HandleInsertBatch(table, r, fail))

ServeDeleteBatch ==
    /\ served.handler = "none"
    /\ \E r \in Requests, fail \in BOOLEAN :
            /\ Route(r.method, r.path) = "DeleteBatch"
            /\ Serve("DeleteBatch", r, fail, FALSE, HandleDeleteBatch(table, r, fail))

ServeGetBatch ==
    /\ served.handler = "none"
    /\ \E r \in Requests, fail, readFail \in BOOLEAN :
            /\ Route(r.method, r.path) = "GetBatch"
            /\ Serve("GetBatch", r, fail, readFail, HandleGetBatch(table, r, fail, readFail))

ServeIncrementBatch ==
    /\ served.handler = "none"
    /\ \E r \in Requests, fail \in BOOLEAN :
            /\ Route(r.method, r.path) = "IncrementBatch"
            /\ Serve("IncrementBatch", r, fail, FALSE, HandleIncrementBatch(table, r, fail))

\* No route has the request's method for its path: the ServeMux answers 405
\* and no handler runs.
ServeMethodNotAllowed ==
    /\ served.handler = "none"
    /\ \E r \in Requests :
            /\ Route(r.method, r.path) = ""
            /\ Serve("", r, FALSE, FALSE,
                 Handled(table, httpError(NewWriter, ErrorMessage("Method Not Allowed", ErrNil), 405),
                         NoCall))

\* The client has read the response (the caller of the codec has taken the
\* result); the server waits for the next request.
Respond ==
    /\ served.handler # "none"
    /\ served' = NoExchange
    /\ last' = NoCall
    /\ before' = table
    /\ UNCHANGED <<table, trav, concVars, sideVars>>

NextServer ==
    \/ ServeInsertOne
    \/ ServeGetOne
    \/ ServeDeleteOne
    \/ ServeIncrementOne
    \/ ServeInsertBatch
    \/ ServeDeleteBatch
    \/ ServeGetBatch
    \/ ServeIncrementBatch
    \/ ServeMethodNotAllowed
    \/ Respond

\* The server of cmd/iidy on an empty table.
SpecServer == Init /\ [][NextServer]_vars

\* ---------------------------------------- the HTTP adapter: codec on its own
\* getItemsFromBody applied to one body after another, as the batch handlers
\* call it: with the negotiated content type and a body that is not nil.

\* The bodies decoded. As plain text: every text of at most MaxBodyLen bytes
\* over two letters, the newline and the space. As JSON: the payload of
\* every items slice of at most MaxBatchLen identifiers over a letter and the
\* space, the JSON bodies the server is sent, and further values: a string,
\* arrays of null and of a string, an array in an array, an object in an
\* array, items holding a null, holding an array and being an object, a
\* member of another name, two items members, null with white space.
Payloads(contentType) ==
    IF contentType = "application/json"
    THEN {JSONPayload(ids) : ids \in SeqsUpTo(SeqsUpTo({1, SP}, 2), MaxBatchLen)}
         \cup JSONBodies
         \cup {JSONStrings(<<<<1>>>>), <<LBrack>> \o NullLit \o <<RBrack>>,
               <<LBrack>> \o JSONStrings(<<<<1>>>>) \o <<RBrack>>,
               <<LBrack, LBrack, RBrack, RBrack>>, <<LBrack, LBrace, RBrace, RBrack>>,
               JSONObject(<<LBrack>> \o NullLit \o <<RBrack>>),
               JSONObject(<<LBrack, LBrack, RBrack, RBrack>>),
               JSONObject(<<LBrace, RBrace>>),
               <<LBrace>> \o JSONStrings(<<<<1>>>>) \o <<Colon>> \o NullLit \o <<RBrace>>,
               <<LBrace, Quote>> \o ItemsKey \o <<Quote, Colon, LBrack, RBrack, Comma, Quote>>
                   \o ItemsKey \o <<Quote, Colon>> \o NullLit \o <<RBrace>>,
               <<SP>> \o NullLit \o <<NL>>}
    ELSE SeqsUpTo({1, 2, NL, SP}, MaxBodyLen)

\* The body is decoded under contentType: served holds the call, last what
\* it returned, the writer whether it panicked instead.
Decode(contentType, bodyBytes) ==
    LET got == getItemsFromBody(contentType, MkSlice(bodyBytes))
    IN  /\ served.handler = "none"
        /\ last.op = "none"
        /\ served' = [NoExchange EXCEPT !.handler = "getItemsFromBody",
                                        !.req.contentType = contentType,
                                        !.req.body = MkSlice(bodyBytes),
                                        !.w.aborted = got.panics]
        /\ last' = [NoCall EXCEPT !.op = "getItemsFromBody", !.items = got.items,
                                  !.err = got.err]
        /\ UNCHANGED <<table, before, trav, concVars, sideVars>>

DecodePlainText == \E b \in Payloads("text/plain") : Decode("text/plain", b)

DecodeJSON == \E b \in Payloads("application/json") : Decode("application/json", b)

\* The codec, body by body: a body is decoded, the caller takes the result.
SpecCodec == Init /\ [][DecodePlainText \/ DecodeJSON \/ Respond]_vars

\* ------------------------------------------------- the bulk-copy source
\* InsertBatch hands CopyFrom an itemCopier; the copy drives it with "call
\* Next; if it says true, call Values" and may ask Err at any time.  rows and
\* nexts keep what Values and Next returned, in order.

\* rowSrc := newItemCopier(list, items), after InsertBatch found items
\* neither nil nor empty.
NewItemCopier ==
    /\ copier.pc = "none"
    /\ \E list \in Lists : \E items \in Slices(list) :
        /\ ~items.isNil /\ Len(items.elems) # 0
        /\ copier' = [NoCopier EXCEPT !.pc = "next", !.List = list, !.Items = items,
                                      !.Len = Len(items.elems), !.I = 0]
    /\ UNCHANGED <<table, before, last, trav, concVars, served, mem, workers>>

\* Next(): cp.I < cp.Len.  The copy stops asking a few calls after the end.
CopierNext ==
    /\ copier.pc = "next"
    /\ Len(copier.nexts) < copier.Len + MaxBatchLen
    /\ copier' = [copier EXCEPT !.nexts = Append(@, copier.I < copier.Len),
                                !.pc = IF copier.I < copier.Len THEN "values" ELSE "next"]
    /\ UNCHANGED <<table, before, last, trav, concVars, served, mem, workers>>

\* A Values() that reads the slice from its far end.
CopierValuesFromEnd ==
    /\ copier.pc = "values"
    /\ copier' = [copier EXCEPT
                    !.rows = Append(@, <<copier.List,
                                         copier.Items.elems[copier.Len - copier.I]>>),
                    !.I = @ + 1,
                    !.pc = "next"]
    /\ UNCHANGED <<table, before, last, trav, concVars, served, mem, workers>>

\* Values(): row := {cp.List, cp.Items[cp.I]}; cp.I++; return row, nil.
\* Go indexes from 0, the sequence from 1.
CopierValues ==
    /\ copier.pc = "values"
    /\ copier' = [copier EXCEPT
                    !.rows = Append(@, <<copier.List, copier.Items.elems[copier.I + 1]>>),
                    !.I = @ + 1,
                    !.pc = "next"]
    /\ UNCHANGED <<table, before, last, trav, concVars, served, mem, workers>>

\* Err(): return nil.
CopierErr ==
    /\ copier.pc # "none"
    /\ copier' = [copier EXCEPT !.err = ErrNil]
    /\ UNCHANGED <<table, before, last, trav, concVars, served, mem, workers>>

SpecCopier ==
    Init /\ [][NewItemCopier \/ CopierNext \/ CopierValues \/ CopierErr]_vars

\* ------------------------------------------------------- the two stores
\* The Store interface has an in-memory binding (MemStore) and a PostgreSQL
\* binding (PgStore).  The store tests run every call against both, from
\* NewMemStore() and from the empty table; the pool answers every statement.
\* mem keeps the lists that have a map and the items of those maps as rows.

\* MemStore.Add: make the list's map if it is missing; list[itemID] = 0.
MemAdd(m, listName, itemID) ==
    [m EXCEPT !.lists = @ \cup {listName},
              !.rows = (@ \ Match(@, listName, itemID)) \cup {Row(listName, itemID, 0)},
              !.op = "Add", !.err = ErrNil, !.attempts = 0, !.ok = FALSE]

\* MemStore.Get: (0, false, nil) without the list; else item, ok := list[itemID].
MemGet(m, listName, itemID) ==
    IF listName \notin m.lists \/ Match(m.rows, listName, itemID) = {}
    THEN [m EXCEPT !.op = "Get", !.err = ErrNil, !.attempts = 0, !.ok = FALSE]
    ELSE [m EXCEPT !.op = "Get", !.err = ErrNil, !.ok = TRUE,
                   !.attempts = (CHOOSE r \in Match(m.rows, listName, itemID) : TRUE).attempts]

\* MemStore.Del: delete(list, itemID) when the list has a map; nil either way.
MemDel(m, listName, itemID) ==
    [m EXCEPT !.rows = IF listName \in m.lists THEN @ \ Match(@, listName, itemID) ELSE @,
              !.op = "Del", !.err = ErrNil, !.attempts = 0, !.ok = FALSE]

\* MemStore.Inc: errors.New(...) without the list or without the item; else
\* list[itemID]++.
MemInc(m, listName, itemID) ==
    IF listName \notin m.lists \/ Match(m.rows, listName, itemID) = {}
    THEN [m EXCEPT !.op = "Inc", !.err = ErrOpaque, !.attempts = 0, !.ok = FALSE]
    ELSE [m EXCEPT !.rows = Incremented(@, Match(@, listName, itemID)),
                   !.op = "Inc", !.err = ErrNil, !.attempts = 0, !.ok = FALSE]

\* PgStore.Add: insert into lists (list, item) values ($1, $2); the error of
\* Exec is returned as is.
PgAdd(t, listName, itemID) ==
    IF ViolatesPK(t, listName, itemID)
    THEN [table |-> t, err |-> ErrPgx, attempts |-> 0, ok |-> FALSE]
    ELSE [table |-> t \cup {Row(listName, itemID, 0)}, err |-> ErrNil,
          attempts |-> 0, ok |-> FALSE]

\* PgStore.Get: select attempts ...; pgx.ErrNoRows becomes (0, false, nil).
PgGet(t, listName, itemID) ==
    IF Match(t, listName, itemID) = {}
    THEN [table |-> t, err |-> ErrNil, attempts |-> 0, ok |-> FALSE]
    ELSE [table |-> t, err |-> ErrNil, ok |-> TRUE,
          attempts |-> (CHOOSE r \in Match(t, listName, itemID) : TRUE).attempts]

\* PgStore.Del: delete from lists where list = $1 and item = $2.
PgDel(t, listName, itemID) ==
    [table |-> t \ Match(t, listName, itemID), err |-> ErrNil,
     attempts |-> 0, ok |-> FALSE]

\* PgStore.Inc: update lists set attempts = attempts + 1 where list = $1 and
\* item = $2; a statement that matches no row is no error.
PgInc(t, listName, itemID) ==
    [table |-> Incremented(t, Match(t, listName, itemID)), err |-> ErrNil,
     attempts |-> 0, ok |-> FALSE]

\* The record of a call on the PostgreSQL store, beside mem's for MemStore.
PgCall(op, listName, itemID, res) ==
    [NoCall EXCEPT !.op = op, !.list = listName, !.item = itemID, !.err = res.err,
                   !.attempts = res.attempts, !.found = res.ok]

\* for _, s := range getStores(t) { s.Add(listName, itemID) }
StoresAdd ==
    /\ \E listName \in Lists : \E itemID \in ItemsOf(listName) :
        /\ mem' = MemAdd(mem, listName, itemID)
        /\ table' = PgAdd(table, listName, itemID).table
        /\ last' = PgCall("Add", listName, itemID, PgAdd(table, listName, itemID))
    /\ before' = table
    /\ UNCHANGED <<trav, concVars, served, copier, workers>>

\* for _, s := range getStores(t) { s.Get(listName, itemID) }
StoresGet ==
    /\ \E listName \in Lists : \E itemID \in ItemsOf(listName) :
        /\ mem' = MemGet(mem, listName, itemID)
        /\ table' = PgGet(table, listName, itemID).table
        /\ last' = PgCall("Get", listName, itemID, PgGet(table, listName, itemID))
    /\ before' = table
    /\ UNCHANGED <<trav, concVars, served, copier, workers>>

\* for _, s := range getStores(t) { s.Del(listName, itemID) }
StoresDel ==
    /\ \E listName \in Lists : \E itemID \in ItemsOf(listName) :
        /\ mem' = MemDel(mem, listName, itemID)
        /\ table' = PgDel(table, listName, itemID).table
        /\ last' = PgCall("Del", listName, itemID, PgDel(table, listName, itemID))
    /\ before' = table
    /\ UNCHANGED <<trav, concVars, served, copier, workers>>

\* for _, s := range getStores(t) { s.Inc(listName, itemID) }; the attempts
\* counters are capped.
StoresInc ==
    /\ \E listName \in Lists : \E itemID \in ItemsOf(listName) :
        /\ ~AtCap(Match(table, listName, itemID))
        /\ ~AtCap(Match(mem.rows, listName, itemID))
        /\ mem' = MemInc(mem, listName, itemID)
        /\ table' = PgInc(table, listName, itemID).table
        /\ last' = PgCall("Inc", listName, itemID, PgInc(table, listName, itemID))
    /\ before' = table
    /\ UNCHANGED <<trav, concVars, served, copier, workers>>

SpecStores == Init /\ [][StoresAdd \/ StoresGet \/ StoresDel \/ StoresInc]_vars

\* ------------------------------------------------------ the download workflow
\* The documented use: a list is filled once; each worker takes a batch with
\* GetBatch, tries its items, deletes those that succeeded together with those
\* it abandons, increments those that failed, and takes the next batch after
\* the last item of this one, starting again at the beginning after the end of
\* the list.  Nothing is inserted any more, and the store answers every call.

\* The list being drained.
DrainList == "l1"

\* 1) the list as AddBatch filled it, beside a list that is left alone.
InitDrain ==
    /\ \E names \in SUBSET Items :
        table = {Row(DrainList, i, 0) : i \in names} \cup {Row("l2", <<1>>, 0)}
    /\ origin = table
    /\ before = {}
    /\ last = NoCall
    /\ trav = NoTraversal
    /\ callers = NoCallers
    /\ tally = NoTally
    /\ served = NoExchange
    /\ copier = NoCopier
    /\ mem = NoMemStore
    /\ workers = NoWorkers

\* The items of the entries of batch that are in S, as an items slice.
ItemsAmong(batch, S) ==
    LET sel == SelectSeq(batch, LAMBDA e : e.item \in S)
    IN  MkSlice([k \in 1..Len(sel) |-> sel[k].item])

\* items, _ := GetBatch(ctx, PgPool, listName, cursor, BatchSize); the worker
\* tries the items that are below the abandon limit, and any of them may fail.
WorkerTake(w) ==
    /\ workers[w].pc = "take"
    /\ LET page == GetBatch(table, DrainList, workers[w].cursor, BatchSize,
                            FALSE, FALSE).entries
       IN  IF page = <<>>
           THEN workers' = [workers EXCEPT ![w].cursor = <<>>]
           ELSE \E failed \in SUBSET {page[k].item : k \in 1..Len(page)} :
                   /\ \A k \in 1..Len(page) :
                        page[k].item \in failed => page[k].attempts < AbandonLimit
                   /\ workers' = [workers EXCEPT ![w].pc = "delete",
                                                 ![w].batch = page,
                                                 ![w].failed = failed]
    /\ UNCHANGED <<table, before, last, trav, concVars, served, copier, mem>>

\* 2a) and 3): DeleteBatch of the items that succeeded and of those abandoned.
WorkerDelete(w) ==
    /\ workers[w].pc = "delete"
    /\ table' = DeleteBatch(table, DrainList,
                            ItemsAmong(workers[w].batch, Items \ workers[w].failed),
                            FALSE).table
    /\ workers' = [workers EXCEPT ![w].pc = "increment"]
    /\ UNCHANGED <<before, last, trav, concVars, served, copier, mem>>

\* A worker that tries failed items again without recording the attempt.
WorkerRetryUncounted(w) ==
    /\ workers[w].pc = "increment"
    /\ workers' = [workers EXCEPT
                    ![w].pc = "take",
                    ![w].cursor = workers[w].batch[Len(workers[w].batch)].item,
                    ![w].batch = <<>>,
                    ![w].failed = {}]
    /\ UNCHANGED <<table, before, last, trav, concVars, served, copier, mem>>

\* 2b): IncrementBatch of the items that failed; the next batch starts after
\* the last item of this one.
WorkerIncrement(w) ==
    /\ workers[w].pc = "increment"
    /\ table' = IncrementBatch(table, DrainList,
                               ItemsAmong(workers[w].batch, workers[w].failed),
                               FALSE).table
    /\ workers' = [workers EXCEPT
                    ![w].pc = "take",
                    ![w].cursor = workers[w].batch[Len(workers[w].batch)].item,
                    ![w].batch = <<>>,
                    ![w].failed = {}]
    /\ UNCHANGED <<before, last, trav, concVars, served, copier, mem>>

NextDrain ==
    \E w \in Workers :
        \/ WorkerTake(w)
        \/ WorkerDelete(w)
        \/ WorkerIncrement(w)

\* The workers of the workflow, each of them scheduled again and again.
SpecDrain ==
    /\ InitDrain
    /\ [][NextDrain]_vars
    /\ \A w \in Workers :
        WF_vars(WorkerTake(w) \/ WorkerDelete(w) \/ WorkerIncrement(w))

\* -------------------------------------------------------------- properties

\* The smaller of two numbers.
Min(a, b) == IF a < b THEN a ELSE b

\* Is identifier i one of the elements of the items slice?
Named(items, i) == \E k \in 1..Len(items.elems) : items.elems[k] = i

\* Has (list, item) a row in the table t?
HasRow(t, list, item) == \E r \in t : r.list = list /\ r.item = item

\* C2: GetBatch(list, afterItem, count) with count > 0 returns exactly the
\* min(count, n) smallest entries of the list whose item is strictly greater
\* than afterItem (every entry of the list when afterItem is empty), in
\* strictly ascending item order, each with its current attempts and none
\* from another list; with count = 0, or for a list without rows, it returns
\* the empty sequence and no error.
C2_GetBatchPage ==
    /\ (last.op = "GetBatch" /\ last.count = 0) =>
           (last.entries = <<>> /\ last.err = ErrNil)
    /\ (last.op = "GetBatch" /\ ~last.fail /\ ~last.readFail /\ last.count >= 0) =>
        LET e == last.entries
            cand == {r \in before : /\ r.list = last.list
                                    /\ (last.after = <<>> \/ StrLess(last.after, r.item))}
        IN  /\ last.err = ErrNil
            /\ Len(e) = Min(last.count, Cardinality(cand))
            /\ \A k \in 1..Len(e) :
                   \E r \in cand : r.item = e[k].item /\ r.attempts = e[k].attempts
            /\ \A k \in 1..(Len(e) - 1) : StrLess(e[k].item, e[k + 1].item)
            /\ \A r \in cand :
                   (\A k \in 1..Len(e) : e[k].item # r.item) =>
                       (\A k \in 1..Len(e) : StrLess(e[k].item, r.item))
            /\ ({r \in before : r.list = last.list} = {} => e = <<>>)

\* C2 witness: a page after a non-empty cursor that is cut by count, read
\* while the other list has rows too.
C2_Witness ==
    /\ last.op = "GetBatch" /\ ~last.fail /\ ~last.readFail
    /\ last.after # <<>>
    /\ last.count = 1
    /\ Len(last.entries) = 1
    /\ \E r \in before : r.list = last.list /\ StrLess(last.entries[1].item, r.item)
    /\ \E r \in before : r.list # last.list

\* C4: DeleteBatch(list, items) with a non-empty items removes exactly the
\* rows of the list whose item occurs in items and returns their number;
\* IncrementBatch(list, items) adds 1 to attempts of exactly those rows and
\* returns their number; absent identifiers cause no error and every row not
\* named keeps its existence and its attempts.
C4_BatchPartialEffect ==
    (/\ last.op \in {"DeleteBatch", "IncrementBatch"}
     /\ ~last.fail
     /\ Len(last.items.elems) > 0) =>
        LET named(r) == r.list = last.list /\ Named(last.items, r.item)
        IN  /\ last.err = ErrNil
            /\ last.affected = Cardinality({r \in before : named(r)})
            /\ \A r \in before : ~named(r) => r \in table
            /\ \A r \in table : HasRow(before, r.list, r.item)
            /\ \A r \in before : named(r) =>
                   IF last.op = "DeleteBatch"
                   THEN ~HasRow(table, r.list, r.item)
                   ELSE \A q \in table :
                            (q.list = r.list /\ q.item = r.item) =>
                                q.attempts = r.attempts + 1
            /\ Cardinality(table) =
                   IF last.op = "DeleteBatch"
                   THEN Cardinality(before) - last.affected
                   ELSE Cardinality(before)

\* C4 witness: a batch increment naming a present and an absent identifier,
\* with a row of the list left unnamed.
C4_Witness ==
    /\ last.op = "IncrementBatch" /\ ~last.fail
    /\ last.affected = 1
    /\ \E k \in 1..Len(last.items.elems) :
           ~HasRow(before, last.list, last.items.elems[k])
    /\ \E r \in before : r.list = last.list /\ ~Named(last.items, r.item)

\* C8: InsertBatch, DeleteBatch and IncrementBatch called with a nil or
\* zero-length items return (0, nil), leave every row unchanged and issue no
\* statement, also while the backing store is failing.
C8_EmptyBatchNoOp ==
    (/\ last.op \in {"InsertBatch", "DeleteBatch", "IncrementBatch"}
     /\ (last.items.isNil \/ Len(last.items.elems) = 0)) =>
        /\ last.affected = 0
        /\ last.err = ErrNil
        /\ last.stmts = 0
        /\ table = before

\* C8 witness: a bulk insert of a nil items slice while the backing store
\* fails and the table holds rows.
C8_Witness ==
    /\ last.op = "InsertBatch"
    /\ last.items.isNil
    /\ last.fail
    /\ before # {}

\* C9: for a (list, item) pair without a row, GetOne returns (0, false, nil),
\* DeleteOne returns (0, nil) and IncrementOne returns (0, nil), and none of
\* them changes the table.
C9_AbsenceIsNoError ==
    (/\ last.op \in {"GetOne", "DeleteOne", "IncrementOne"}
     /\ ~last.fail
     /\ ~HasRow(before, last.list, last.item)) =>
        /\ last.err = ErrNil
        /\ last.affected = 0
        /\ last.attempts = 0
        /\ last.found = FALSE
        /\ table = before

\* C9 witness: an increment of a missing item of a list that has other rows.
C9_Witness ==
    /\ last.op = "IncrementOne" /\ ~last.fail
    /\ ~HasRow(before, last.list, last.item)
    /\ \E r \in before : r.list = last.list

\* C10: InsertOne on a (list, item) pair that already has a row returns an
\* error with affected = 0 and leaves the row, its attempts included, as it
\* was.
C10_InsertConflict ==
    (last.op = "InsertOne" /\ HasRow(before, last.list, last.item)) =>
        /\ last.err # ErrNil
        /\ last.affected = 0
        /\ table = before

\* C10 witness: a re-insert of a row that had been incremented, the backing
\* store working.
C10_Witness ==
    /\ last.op = "InsertOne" /\ ~last.fail
    /\ \E r \in before : r.list = last.list /\ r.item = last.item /\ r.attempts > 0

\* The pages of a traversal, one after the other.
RECURSIVE Flat(_)
Flat(pp) == IF pp = <<>> THEN <<>> ELSE Head(pp) \o Flat(Tail(pp))

\* How often item i was returned by the traversal so far.
TimesReturned(i) ==
    Cardinality({k \in 1..Len(Flat(trav.pages)) : Flat(trav.pages)[k] = i})

\* C1: on a list that is not changed, the traversal with page size P >= 1
\* returns every item of the list exactly once, in ascending order, without
\* repeating an item across pages, for every set of items the store accepts
\* (the empty string included): no item is returned twice at any point, the
\* items come in ascending order, and when the short page has come every item
\* of the list has been returned.
C1_PaginationComplete ==
    (trav.state # "off") =>
        LET got == Flat(trav.pages)
        IN  /\ \A i \in Items : TimesReturned(i) <= 1
            /\ \A k \in 1..(Len(got) - 1) : StrLess(got[k], got[k + 1])
            /\ trav.state = "done" =>
                   \A i \in ItemsIn(table, trav.list) : TimesReturned(i) = 1

\* C5: while other callers delete and increment only rows at or before the
\* cursor, every item that is in the list during the whole traversal is
\* returned exactly once: never twice, and once when the traversal is done.
C5_VisitedMutationStable ==
    (trav.state # "off") =>
        \A i \in trav.present :
            /\ TimesReturned(i) <= 1
            /\ trav.state = "done" => TimesReturned(i) = 1

\* C6: under any interleaving with inserts and deletes, every entry of a
\* later page is strictly greater than the last item of every earlier page,
\* and no item is returned twice in one traversal.
C6_Watermark ==
    (trav.state # "off") =>
        /\ \A j, k \in 1..Len(trav.pages) :
               (j < k /\ trav.pages[j] # <<>>) =>
                   \A n \in 1..Len(trav.pages[k]) :
                       StrLess(trav.pages[j][Len(trav.pages[j])], trav.pages[k][n])
        /\ \A i \in Items : TimesReturned(i) <= 1

\* C7: on a list of K items that is not changed, the traversal with page
\* size P makes at most floor(K/P) + 1 GetBatch calls, for every set of items
\* the store can hold; and whenever a page is shorter than P the list holds
\* no item greater than the last one returned (or than afterItem when the
\* page is empty).
C7_TraversalTerminates ==
    (trav.state # "off") =>
        /\ Len(trav.pages) <=
               (Cardinality(ItemsIn(table, trav.list)) \div trav.pageSize) + 1
        /\ \A k \in 1..Len(trav.pages) :
               Len(trav.pages[k]) < trav.pageSize =>
                   LET mark == IF trav.pages[k] = <<>>
                               THEN trav.afters[k]
                               ELSE trav.pages[k][Len(trav.pages[k])]
                   IN  \A i \in ItemsIn(table, trav.list) : ~StrLess(mark, i)

\* C3: for a row that exists with attempts = v and is not deleted, after any
\* interleaving of N IncrementOne calls on it and M IncrementBatch calls
\* naming it, by any number of concurrent callers, that all returned without
\* error, the row's attempts is v + N + M (calls that returned an error add
\* nothing).
C3_NoLostIncrement ==
    (\A c \in Callers : callers[c].pc # "running") =>
        \A r \in origin :
            \E q \in table :
                /\ q.list = r.list
                /\ q.item = r.item
                /\ q.attempts = r.attempts + tally.done[r.item]

\* C3 witness: all calls have returned, and a row that started with
\* attempts 1 took three increments, two of them in flight at once.
C3_Witness ==
    /\ \A c \in Callers : callers[c].pc # "running"
    /\ \E r \in origin :
        /\ r.attempts = 1
        /\ tally.done[r.item] = 3
        /\ r.item \in tally.raced
    /\ \E c \in Callers : callers[c].op = "IncrementBatch" /\ callers[c].affected = 2

\* C11: from one call to the next, a row that stays in the table keeps its
\* attempts or gains exactly 1, and gains only by a successful IncrementOne or
\* IncrementBatch on its list that names its item; no call lowers or otherwise
\* sets attempts; and every row a call creates, whether or not the pair had a
\* row earlier that was deleted, starts with attempts = 0. The rows of the
\* table hold one row per (list, item).
C11_AttemptsLifecycle ==
    /\ \A r, q \in table : (r.list = q.list /\ r.item = q.item) => r = q
    /\ \A q \in table :
        IF HasRow(before, q.list, q.item)
        THEN LET r == CHOOSE o \in before : o.list = q.list /\ o.item = q.item
             IN  \/ q.attempts = r.attempts
                 \/ /\ q.attempts = r.attempts + 1
                    /\ last.err = ErrNil
                    /\ last.list = q.list
                    /\ \/ last.op = "IncrementOne" /\ last.item = q.item
                       \/ last.op = "IncrementBatch" /\ Named(last.items, q.item)
        ELSE /\ q.attempts = 0
             /\ last.op \in {"InsertOne", "InsertBatch"}
    /\ (last.op \in {"IncrementOne", "IncrementBatch"} /\ last.err = ErrNil) =>
           \A r \in before :
               (/\ r.list = last.list
                /\ \/ last.op = "IncrementOne" /\ last.item = r.item
                   \/ last.op = "IncrementBatch" /\ Named(last.items, r.item)) =>
                   Row(r.list, r.item, r.attempts + 1) \in table

\* C11 witness: an insert has created a row with attempts = 0 beside a row
\* of the same list that increments had raised, so that rows with raised
\* attempts were there to be deleted and inserted again.
C11_Witness ==
    /\ last.op = "InsertOne" /\ last.affected = 1
    /\ Row(last.list, last.item, 0) \in table
    /\ \E r \in before : r.list = last.list /\ r.attempts = MaxAttempts

\* C12: InsertBatch(list, S) on a list without rows, S pairwise distinct,
\* returns (len(S), nil), and the GetBatch(list, "", len(S)) that follows
\* immediately returns exactly the identifiers of S in ascending order, each
\* with attempts = 0.
C12_BatchRoundTrip ==
    (/\ last.op = "InsertBatch" /\ ~last.fail
     /\ ItemsIn(before, last.list) = {}
     /\ Cardinality(Unnest(last.items)) = Len(last.items.elems)) =>
        LET n == Len(last.items.elems)
            got == GetBatch(table, last.list, <<>>, n, FALSE, FALSE)
        IN  /\ last.affected = n /\ last.err = ErrNil
            /\ got.err = ErrNil
            /\ Len(got.entries) = n
            /\ {got.entries[k].item : k \in 1..n} = Unnest(last.items)
            /\ \A k \in 1..n : got.entries[k].attempts = 0
            /\ \A k \in 1..(n - 1) : StrLess(got.entries[k].item, got.entries[k + 1].item)

\* C12 witness: a batch of MaxBatchLen distinct identifiers handed over in
\* descending order, the empty string among them, inserted into a list
\* without rows while the other list has rows.
C12_Witness ==
    /\ last.op = "InsertBatch" /\ ~last.fail
    /\ ItemsIn(before, last.list) = {}
    /\ before # {}
    /\ Len(last.items.elems) = MaxBatchLen
    /\ Cardinality(Unnest(last.items)) = MaxBatchLen
    /\ last.items.elems[MaxBatchLen] = <<>>
    /\ last.affected = MaxBatchLen

\* C13: InsertOne(list, item) on a pair without a row returns (1, nil) and
\* creates exactly the row (list, item, 0), so that a following GetOne returns
\* (0, true, nil); the same GetOne before the insert returned (0, false, nil):
\* the found flag alone tells the row with attempts = 0 from the missing one.
C13_InsertThenGet ==
    (/\ last.op = "InsertOne" /\ ~last.fail
     /\ ~HasRow(before, last.list, last.item)) =>
        LET got == GetOne(table, last.list, last.item, FALSE)
            missed == GetOne(before, last.list, last.item, FALSE)
        IN  /\ last.affected = 1 /\ last.err = ErrNil
            /\ table = before \cup {Row(last.list, last.item, 0)}
            /\ got.attempts = 0 /\ got.found /\ got.err = ErrNil
            /\ missed.attempts = 0 /\ ~missed.found /\ missed.err = ErrNil

\* C13 witness: an insert of a pair without a row whose item has a row in
\* the other list.
C13_Witness ==
    /\ last.op = "InsertOne" /\ ~last.fail
    /\ ~HasRow(before, last.list, last.item)
    /\ \E r \in before : r.item = last.item /\ r.list # last.list
    /\ last.affected = 1

\* C14: whenever one of the eight store operations returns an error, it is a
\* repackaged error carrying only the text of the original, never the pgx
\* error as it came from the driver.
C14_ErrorOpacity ==
    last.op # "none" => last.err \in {ErrNil, ErrOpaque}

\* C16: when the backing store fails while the rows of an accepted page query
\* are read, GetBatch returns an error, and no page with a nil error.
C16_ReadFailureReported ==
    (last.op = "GetBatch" /\ last.count > 0 /\ ~last.fail /\ last.readFail) =>
        (last.err # ErrNil /\ last.entries = <<>>)

\* C16 witness: the read of a page fails while the list has rows the page
\* would hold.
C16_Witness ==
    /\ last.op = "GetBatch" /\ last.count > 0 /\ ~last.fail /\ last.readFail
    /\ Candidates(before, last.list, last.after) # {}
    /\ last.err # ErrNil

\* C15: on each of the eight endpoints, when the store operation the handler
\* called returned an error, the response has status 500 and carries an
\* error message; it is never a success answer, and the batch-get endpoint
\* does not answer 200 with an empty body when GetBatch failed.
C15_StoreErrorIs500 ==
    (served.handler # "none" /\ last.op # "none" /\ last.err # ErrNil) =>
        /\ served.w.status = 500
        /\ served.w.body.msg = "ErrorMessage"
        /\ served.w.body.error.cause = last.err

\* C17: a batch insert, delete or increment request whose body cannot be
\* decoded is answered with a 4xx status, and no store operation is called
\* for it.
C17_DecodeErrorIs400 ==
    (/\ served.handler \in {"InsertBatch", "DeleteBatch", "IncrementBatch"}
     /\ ~served.req.body.isNil /\ ~served.req.bodyErr
     /\ ~getItemsFromBody(Negotiated(served.req.contentType), served.req.body).panics
     /\ getItemsFromBody(Negotiated(served.req.contentType), served.req.body).err # ErrNil) =>
        /\ served.w.status >= 400 /\ served.w.status < 500
        /\ last.op = "none"
        /\ table = before

\* C18: a batch-get request without the count query argument is answered
\* with status 400 and the message "Query arg not found: count" in the
\* negotiated encoding, and GetBatch is not called.
C18_CountRequired ==
    (served.handler = "GetBatch" /\ served.req.count = "") =>
        /\ served.w.status = 400
        /\ served.w.body.msg = "ErrorMessage"
        /\ served.w.body.error = ErrorMessage("Query arg not found: count", ErrNil)
        /\ IF served.req.contentType = "application/json"
           THEN served.w.body.enc = "json" /\ served.w.sent.contentType = AppJSON
           ELSE served.w.body.enc = "text" /\ served.w.sent.contentType = TextPlain
        /\ last.op = "none"
        /\ table = before

\* C18 witness: a JSON client asks for a page of a list with rows and names
\* a cursor but no count.
C18_Witness ==
    /\ served.handler = "GetBatch" /\ served.req.count = ""
    /\ served.req.contentType = "application/json"
    /\ served.req.afterID # <<>>
    /\ \E r \in before : r.list = served.req.list
    /\ served.w.status = 400

\* C19: a POST to .../lists/{list}/{item} with the query action=increment
\* calls IncrementOne, and a POST to .../batch/lists/{list} with
\* action=increment calls IncrementBatch: the answer is INCREMENTED n and no
\* row is inserted; the same requests without action=increment call
\* InsertOne and InsertBatch.
C19_IncrementRouting ==
    (served.handler # "none" /\ served.req.method = "POST"
     /\ served.req.path \in {ItemPath, BatchPath}) =>
        LET one == served.req.path = ItemPath
        IN  IF served.req.action = "increment"
            THEN /\ served.handler = IF one THEN "IncrementOne" ELSE "IncrementBatch"
                 /\ served.w.status \in 200..299 => served.w.body.msg = "IncrementedMessage"
                 /\ \A q \in table : HasRow(before, q.list, q.item)
            ELSE served.handler = IF one THEN "InsertOne" ELSE "InsertBatch"

C21_LastItemHeader ==
    served.handler = "GetBatch" =>
        IF last.op = "GetBatch" /\ last.entries # <<>>
        THEN LET final == last.entries[Len(last.entries)].item
                 header == served.w.sent.lastItem
             IN  /\ header = <<final>>
                 /\ \A n \in 1..MaxCount :
                        GetBatch(table, last.list, header[1], n, FALSE, FALSE).entries
                            = GetBatch(table, last.list, final, n, FALSE, FALSE).entries
        ELSE served.w.sent.lastItem = <<>>

\* C22: a plain-text payload made of n >= 1 non-empty identifiers without a
\* newline, the first without leading and the last without trailing white
\* space, separated by single newlines and surrounded by any white space,
\* decodes to exactly those n identifiers in payload order.
C22_PlainTextDecoding ==
    (served.handler = "getItemsFromBody" /\ served.req.contentType = "text/plain") =>
        \A ids \in SeqsUpTo(SeqsUpTo({1, 2, SP}, 2) \ {<<>>}, MaxBatchLen) :
            \A i \in 0..Len(served.req.body.elems) :
                LET b == served.req.body.elems
                    p == TextPayload(ids)
                IN  (/\ ids # <<>>
                     /\ ~IsSpace(ids[1][1])
                     /\ ~IsSpace(ids[Len(ids)][Len(ids[Len(ids)])])
                     /\ i + Len(p) <= Len(b)
                     /\ SubSeq(b, i + 1, i + Len(p)) = p
                     /\ \A k \in (1..i) \cup ((i + Len(p) + 1)..Len(b)) : IsSpace(b[k])) =>
                        /\ last.items = MkSlice(ids)
                        /\ last.err = ErrNil
                        /\ ~served.w.aborted

\* C22 witness: two identifiers, the first ending with a space, behind a
\* newline: the payload is trimmed as a whole and not line by line.
C22_Witness ==
    /\ served.handler = "getItemsFromBody" /\ served.req.contentType = "text/plain"
    /\ served.req.body.elems = <<NL, 1, SP, NL>> \o <<2>>
    /\ last.items = MkSlice(<<<<1, SP>>, <<2>>>>)

\* C23: a plain-text payload of zero bytes, or of nothing but white space,
\* decodes to a sequence without elements, never to a single empty-string
\* identifier, so that the batch insert that follows creates no row.
C23_EmptyPayload ==
    (/\ served.handler = "getItemsFromBody" /\ served.req.contentType = "text/plain"
     /\ \A k \in 1..Len(served.req.body.elems) : IsSpace(served.req.body.elems[k])) =>
        /\ Len(last.items.elems) = 0
        /\ InsertBatch({}, "l1", last.items, FALSE).table = {}

\* C24 as claimed: for both encodings and every sequence of identifiers,
\* the payload of the sequence (joined by newlines; {"items":[...]}) decodes
\* to the same identifiers in the same order.
C24_RoundTripAny ==
    served.handler = "getItemsFromBody" =>
        IF served.req.contentType = "application/json"
        THEN \A ids \in SeqsUpTo(SeqsUpTo({1, SP}, 2), MaxBatchLen) :
                 served.req.body.elems = JSONPayload(ids) =>
                     (last.items.elems = ids /\ last.err = ErrNil)
        ELSE \A ids \in SeqsUpTo(SeqsUpTo({1, NL, SP}, 2), MaxBatchLen + 1) :
                 served.req.body.elems = TextPayload(ids) =>
                     (last.items.elems = ids /\ last.err = ErrNil)

\* C24 amended: the JSON payload of every sequence of identifiers decodes to
\* the same sequence; the plain-text payload of a sequence decodes to the
\* same sequence exactly when the sequence is empty, or no identifier holds
\* a newline and the first and the last identifier are not empty, the first
\* without leading and the last without trailing white space.
C24_RoundTrip ==
    served.handler = "getItemsFromBody" =>
        IF served.req.contentType = "application/json"
        THEN \A ids \in SeqsUpTo(SeqsUpTo({1, SP}, 2), MaxBatchLen) :
                 served.req.body.elems = JSONPayload(ids) =>
                     (last.items.elems = ids /\ last.err = ErrNil /\ ~served.w.aborted)
        ELSE \A ids \in SeqsUpTo(SeqsUpTo({1, NL, SP}, 2), MaxBatchLen + 1) :
                 served.req.body.elems = TextPayload(ids) =>
                     /\ last.err = ErrNil
                     /\ (last.items.elems = ids) <=>
                            \/ ids = <<>>
                            \/ /\ \A k \in 1..Len(ids) : \A j \in 1..Len(ids[k]) : ids[k][j] # NL
                               /\ ids[1] # <<>> /\ ~IsSpace(ids[1][1])
                               /\ ids[Len(ids)] # <<>>
                               /\ ~IsSpace(ids[Len(ids)][Len(ids[Len(ids)])])

\* C24 witness: the plain-text payload of three identifiers, the one in the
\* middle empty, has come back as the three identifiers.
C24_Witness ==
    /\ served.handler = "getItemsFromBody" /\ served.req.contentType = "text/plain"
    /\ served.req.body.elems = TextPayload(<<<<1>>, <<>>, <<1>>>>)
    /\ last.items.elems = <<<<1>>, <<>>, <<1>>>>

C25_NegotiationDefault ==
    (served.handler \notin {"none", "", "getItemsFromBody"}
     /\ served.req.contentType \notin {"text/plain", "application/json"}) =>
        LET r == [served.req EXCEPT !.contentType = "text/plain"]
            h == served.handler
            asText ==
                IF h = "InsertOne" THEN HandleInsertOne(before, r, served.fail)
                ELSE IF h = "GetOne" THEN HandleGetOne(before, r, served.fail)
                ELSE IF h = "DeleteOne" THEN HandleDeleteOne(before, r, served.fail)
                ELSE IF h = "IncrementOne" THEN HandleIncrementOne(before, r, served.fail)
                ELSE IF h = "InsertBatch" THEN HandleInsertBatch(before, r, served.fail)
                ELSE IF h = "DeleteBatch" THEN HandleDeleteBatch(before, r, served.fail)
                ELSE IF h = "IncrementBatch" THEN HandleIncrementBatch(before, r, served.fail)
                ELSE HandleGetBatch(before, r, served.fail, served.readFail)
        IN  /\ served.w = asText.w
            /\ table = asText.table
            /\ served.w.body.enc \in {"text", "none"}
            /\ served.w.sent.contentType \in {TextPlain, ""}
            /\ served.w.status \notin {406, 415}
            /\ (~served.req.body.isNil /\ ~served.req.bodyErr) =>
                   (last.op = "none"
                    \/ last.items = getItemsFromPlainText(served.req.body))

\* C25 witness: a batch insert sent as text/html with two items in its body
\* has inserted both and is answered 201 in plain text.
C25_Witness ==
    /\ served.handler = "InsertBatch" /\ served.req.contentType = "text/html"
    /\ served.req.body.elems = TextPayload(<<<<1>>, <<2>>>>)
    /\ last.affected = 2
    /\ served.w.status = 201 /\ served.w.body.enc = "text"

\* C26: a batch delete request without a body (the request's Body is nil)
\* is answered 200 with DELETED 0, and a batch increment request without a
\* body 200 with INCREMENTED 0, in the negotiated encoding; neither is
\* answered with an ADDED message.
C26_NoBodyNamesOperation ==
    (served.handler \in {"DeleteBatch", "IncrementBatch"} /\ served.req.body.isNil) =>
        /\ served.w.status = 200
        /\ served.w.body.msg = IF served.handler = "DeleteBatch"
                               THEN "DeletedMessage" ELSE "IncrementedMessage"
        /\ served.w.body.n = 0
        /\ served.w.body.enc = IF served.req.contentType = "application/json"
                               THEN "json" ELSE "text"

\* C27: an InsertBatch whose items name an identifier that has a row in the
\* list, or the same identifier twice, returns an error; and an InsertBatch,
\* DeleteBatch or IncrementBatch that returns an error has changed no row:
\* none of its items is inserted, deleted or incremented, and every existing
\* row keeps its attempts.
C27_BatchAllOrNothing ==
    /\ (/\ last.op = "InsertBatch"
        /\ \/ \E k \in 1..Len(last.items.elems) :
                  HasRow(before, last.list, last.items.elems[k])
           \/ \E j, k \in 1..Len(last.items.elems) :
                  j # k /\ last.items.elems[j] = last.items.elems[k]) =>
            last.err # ErrNil
    /\ (last.op \in {"InsertBatch", "DeleteBatch", "IncrementBatch"} /\ last.err # ErrNil) =>
            table = before

\* C27 witness: an InsertBatch of an identifier without a row and of one
\* whose row increments have raised has returned an error.
C27_Witness ==
    /\ last.op = "InsertBatch" /\ ~last.fail /\ last.err # ErrNil
    /\ Len(last.items.elems) = 2
    /\ ~HasRow(before, last.list, last.items.elems[1])
    /\ Row(last.list, last.items.elems[2], MaxAttempts) \in before
    /\ table = before

\* C28: every store operation issues at most one statement to the backing
\* store for a call, whatever the number of items is, and when that
\* statement fails the operation returns the failure without issuing another
\* statement and without having changed a row.
C28_OneStatementNoRetry ==
    last.op # "none" =>
        /\ last.stmts <= 1
        /\ (last.stmts = 1 /\ (last.fail \/ last.readFail)) =>
               (last.err # ErrNil /\ table = before)

\* C28 witness: a batch increment of MaxBatchLen items was failed by the
\* backing store after its one statement.
C28_Witness ==
    /\ last.op = "IncrementBatch" /\ last.fail
    /\ Len(last.items.elems) = MaxBatchLen
    /\ MatchBatch(before, last.list, last.items) # {}
    /\ last.stmts = 1 /\ last.err # ErrNil

\* C30: in every state reached by any sequence of the eight operations
\* there is at most one row for a (list, item) pair and every row has
\* attempts >= 0; and no operation changes the list or item of an existing
\* row: the pairs that have a row change only by an insert adding pairs it
\* names and by a delete removing pairs it names.
C30_KeyInvariant ==
    /\ \A r, q \in table : (r.list = q.list /\ r.item = q.item) => r = q
    /\ \A r \in table : r.attempts \in Nat
    /\ last.op # "none" =>
           LET named == IF last.op \in {"InsertOne", "DeleteOne"}
                        THEN {<<last.list, last.item>>}
                        ELSE {<<last.list, i>> : i \in Unnest(last.items)}
               now == {<<r.list, r.item>> : r \in table}
               was == {<<r.list, r.item>> : r \in before}
           IN  /\ now \ was \subseteq
                      (IF last.op \in {"InsertOne", "InsertBatch"} THEN named ELSE {})
               /\ was \ now \subseteq
                      (IF last.op \in {"DeleteOne", "DeleteBatch"} THEN named ELSE {})

\* C30 witness: an insert was refused for a pair whose row increments
\* have raised, while the other list holds a row of the same item.
C30_Witness ==
    /\ last.op = "InsertOne" /\ ~last.fail /\ last.err # ErrNil
    /\ Row(last.list, last.item, MaxAttempts) \in table
    /\ \E r \in table : r.item = last.item /\ r.list # last.list

\* C31: when an identifier occurs more than once in the items of
\* IncrementBatch, the matching row's attempts grows by exactly 1 and the
\* row is counted once in affected; when it occurs more than once in the
\* items of DeleteBatch, the row is deleted and counted once: affected is
\* the number of distinct matching rows, at most len(items).
C31_RepeatedCountOnce ==
    (last.op \in {"IncrementBatch", "DeleteBatch"} /\ last.err = ErrNil) =>
        LET hit == {r \in before : r.list = last.list /\ Named(last.items, r.item)}
        IN  /\ last.affected = Cardinality(hit)
            /\ last.affected <= Len(last.items.elems)
            /\ \A r \in hit :
                   IF last.op = "IncrementBatch"
                   THEN /\ Row(r.list, r.item, r.attempts + 1) \in table
                        /\ Cardinality(Match(table, r.list, r.item)) = 1
                   ELSE Match(table, r.list, r.item) = {}

\* C31 witness: a batch increment that names one identifier twice has
\* raised the row by one and counted it once.
C31_Witness ==
    /\ last.op = "IncrementBatch" /\ last.err = ErrNil
    /\ Len(last.items.elems) = 2
    /\ last.items.elems[1] = last.items.elems[2]
    /\ last.affected = 1
    /\ \E r \in before : /\ r.list = last.list /\ r.item = last.items.elems[1]
                          /\ Row(r.list, r.item, r.attempts + 1) \in table

\* C32: every operation called with list L leaves the rows of every other
\* list as they were, in existence and in attempts, also when such a row has
\* the item of a row the operation inserts, deletes or increments in L.
C32_ListIsolation ==
    last.op # "none" =>
        {r \in table : r.list # last.list} = {r \in before : r.list # last.list}

\* C32 witness: a batch delete has removed a row of its list whose item has
\* a row with raised attempts in the other list.
C32_Witness ==
    /\ last.op = "DeleteBatch" /\ last.affected >= 1
    /\ \E r \in before \ table :
           \E q \in table : q.item = r.item /\ q.list # r.list /\ q.attempts = MaxAttempts

\* C35: every success response is sent with the header Content-Type:
\* application/json; charset=utf-8 when application/json is negotiated and
\* with text/plain; charset=utf-8 when plain text is negotiated: the header
\* is set on the response before the status line is written.
C35_HeaderBeforeStatus ==
    (served.handler \notin {"none", "", "getItemsFromBody"}
     /\ served.w.status \in 200..299) =>
        served.w.sent.contentType =
            IF served.req.contentType = "application/json" THEN AppJSON ELSE TextPlain

\* C38: the bulk-copy source built for InsertBatch(list, items), driven by
\* "call Next; if true call Values", yields the rows (list, items[i]) in input
\* order and no others; Next says true exactly for the first len(items) calls
\* and false for every call after them, so that exactly len(items) rows are
\* yielded when it first says false; Err is nil whenever it is asked.
C38_CopierYieldsItemsInOrder ==
    copier.pc # "none" =>
        /\ copier.Len = Len(copier.Items.elems)
        /\ copier.rows = [k \in 1..copier.I |-> <<copier.List, copier.Items.elems[k]>>]
        /\ copier.I <= copier.Len
        /\ \A k \in 1..Len(copier.nexts) : copier.nexts[k] = (k <= copier.Len)
        /\ IF Len(copier.nexts) > copier.Len
           THEN copier.I = copier.Len /\ copier.pc = "next"
           ELSE Len(copier.nexts) = copier.I + (IF copier.pc = "values" THEN 1 ELSE 0)
        /\ copier.err \in {"unread", ErrNil}

\* A copy of two different items was read to its end: both rows were yielded,
\* Next said false twice, and Err was asked.
C38_Witness ==
    /\ copier.pc = "next"
    /\ copier.Len = 2
    /\ copier.Items.elems[1] # copier.Items.elems[2]
    /\ Len(copier.rows) = 2
    /\ Len(copier.nexts) = 4
    /\ copier.err = ErrNil

\* C37: after every sequence of Add, Get, Del and Inc calls made on the
\* in-memory store and on the PostgreSQL store from their empty states, the
\* last call returned an error from both stores or from neither, and a Get
\* returned the same (attempts, ok) from both.
C37_StoresAgree ==
    mem.op # "none" =>
        /\ (mem.err = ErrNil) <=> (last.err = ErrNil)
        /\ mem.op = "Get" => mem.attempts = last.attempts /\ mem.ok = last.found

\* The callers whose insert named item i, those of them that returned
\* without error, and the increments of item i that found its row.
InsertsOf(i) ==
    {c \in DOMAIN callers : /\ callers[c].op \in {"InsertOne", "InsertBatch"}
                            /\ i \in Unnest(callers[c].items)}
InsertsWon(i) == {c \in InsertsOf(i) : callers[c].err = ErrNil}
IncrementsApplied(i) ==
    Cardinality({c \in DOMAIN callers : /\ callers[c].op = "IncrementOne"
                                        /\ i \in Unnest(callers[c].items)
                                        /\ callers[c].err = ErrNil
                                        /\ callers[c].affected = 1})

RECURSIVE SumAffected(_)
SumAffected(S) ==
    IF S = {} THEN 0
    ELSE LET c == CHOOSE d \in S : TRUE
         IN  callers[c].affected + SumAffected(S \ {c})

\* C34: after any interleaving of concurrent DeleteOne and DeleteBatch calls
\* that have all returned without error, the affected results of the calls
\* add up to the number of rows removed, and no row of the table is new or
\* changed: each removed row was counted by exactly one call.
C34_DeletionReportedOnce ==
    (\A c \in DOMAIN callers : callers[c].pc # "running" /\ callers[c].err = ErrNil) =>
        /\ table \subseteq origin
        /\ SumAffected(DOMAIN callers) = Cardinality(origin \ table)

\* C34 witness: three deletes naming one row have returned without error, a
\* batch among them counted two rows, and the affected results add up to the
\* two rows removed.
C34_Witness ==
    /\ \A c \in DOMAIN callers :
        /\ callers[c].pc = "returned" /\ callers[c].err = ErrNil
        /\ callers[c].op \in {"DeleteOne", "DeleteBatch"}
        /\ <<1>> \in Unnest(callers[c].items)
    /\ Row(ConcList, <<1>>, 1) \in origin \ table
    /\ \E c \in DOMAIN callers : callers[c].op = "DeleteBatch" /\ callers[c].affected = 2
    /\ SumAffected(DOMAIN callers) = 2

\* C36: with no further inserts and every worker scheduled again and again,
\* workers that take batches with GetBatch, delete the items that succeeded,
\* increment those that failed and delete those whose attempts reached the
\* abandon limit eventually leave the list empty, and it stays empty.
C36_ListDrains == <>[](ItemsIn(table, DrainList) = {})

\* C36 witness: a list of four items, the empty item among them, is empty,
\* both workers are back at its beginning, and the other list kept its row.
C36_Witness ==
    /\ ItemsIn(origin, DrainList) = Items
    /\ ItemsIn(table, DrainList) = {}
    /\ table = {Row("l2", <<1>>, 0)}
    /\ \A w \in Workers : workers[w].pc = "take" /\ workers[w].cursor = <<>>

====
